---- MODULE Spec2Model ----
(***************************************************************************)
(* A model of the HH4b matching skimmer (processors/matchingSkimmer.py),    *)
(* of the physics-object selection (processors/objects.py), of the BDT     *)
(* training driver (boosted/TrainBDT.py) and of the run utilities          *)
(* (run_utils.py).                                                         *)
(*                                                                         *)
(* Conventions.                                                            *)
(*  - Python indices are 0-based; sequences here are 1-based, so pairing   *)
(*    number a of the lookup table is JET_ASSIGNMENTS[nj][a+1].  Jet       *)
(*    indices stored inside the table stay 0-based, as in the source.      *)
(*  - Real numbers are integers in fixed units: masses in GeV, eta and     *)
(*    mini-isolation in tenths, tagger scores in arbitrary units.          *)
(*  - Columnar (per-event) array code is modelled for one event where the  *)
(*    source treats the events independently (getJetAssignmentVars), and   *)
(*    for a whole chunk where it sums or masks over events (process).      *)
(***************************************************************************)
EXTENDS Integers, Sequences, FiniteSets, TLC

VARIABLES
    pc,                 \* the operation that has run ("start" before any)
    JET_ASSIGNMENTS,    \* matchingSkimmer.JET_ASSIGNMENTS, class attribute
    dijet_M,            \* (jets[i] + jets[j]).M for every jet pair <<i,j>>
    dijet_pt,           \* (jets[i] + jets[j]).pt for every jet pair <<i,j>>
    com_pt,             \* com_pt of every pairing (line 374)
    jetAssignmentDict,  \* the dictionary getJetAssignmentVars returns
    muons,              \* argument of good_muons
    electrons,          \* argument of good_electrons
    jets,               \* argument of good_ak4jets
    fatjets,            \* argument of good_ak8jets
    year,               \* argument of good_ak4jets
    isData,             \* argument of good_ak4jets
    selected,           \* the collection a good_* function returns
    XSECS,              \* matchingSkimmer.XSECS, set by __init__
    chunks,             \* the event chunks handed to process, by chunk number
    frame,              \* process's local variables at its return, per chunk
    outparquet,         \* the files under ./outparquet, by file name
    preds,              \* argument of _get_bdt_scores: one row per event
    sig_keys,           \* args.sig_keys
    bg_keys,            \* args.bg_keys
    multiclass,         \* args.multiclass
    bdt_scores,         \* the array _get_bdt_scores returns
    events_dict,        \* finalWeight of every row of every training sample
    equalize_weights,   \* args.equalize_weights
    run2_wapproach,     \* args.run2_wapproach
    events,             \* the "weight" column of preprocess_data's events
    data_split,         \* the partitions preprocess_data returns
    evaluate_only,      \* args.evaluate_only
    model_dir,          \* the files under ./bdt_trainings_run3/<model_name>/
    model,              \* main's locals model and evals_result
    calls,              \* the functions main has called, with arguments
    year_argv,          \* the values of --year on the command line, if any
    args_year,          \* args.year
    apply_cuts,         \* args.apply_cuts
    samples_run3,       \* hh_vars.samples_run3, shared by the module
    events_dict_years,  \* main's local events_dict_years
    main_year,          \* main's local year after the load stage
    main_events_dict,   \* main's local events_dict
    bool_arg,           \* the arguments name, default, no_name of add_bool_arg
    parser,             \* the argparse parser: its options and defaults
    argv,               \* the command line given to parser.parse_args
    namespace,          \* the namespace parse_args returns
    full_fileset_nano,  \* the content of data/nanoindex_<version>.json
    fileset_args,       \* the arguments of get_fileset
    fileset,            \* the mapping get_fileset returns
    var_dict,           \* argument of flatten_dict: <<key, array>> entries
    new_dict,           \* the dictionary flatten_dict returns
    raised              \* the exception an operation ended with ("" if none)

pairingVars == <<dijet_M, dijet_pt, com_pt, jetAssignmentDict>>
objectVars == <<muons, electrons, jets, fatjets, year, isData, selected>>
processVars == <<XSECS, chunks, frame, outparquet>>
scoreVars == <<preds, multiclass, bdt_scores>>
weightVars == <<events_dict, equalize_weights, run2_wapproach, events,
                data_split>>
mainVars == <<evaluate_only, model_dir, model, calls>>
loadVars == <<year_argv, args_year, apply_cuts, samples_run3,
              events_dict_years, main_year, main_events_dict>>
driverVars == <<sig_keys, bg_keys, scoreVars, weightVars, mainVars, loadVars>>
argVars == <<bool_arg, parser, argv, namespace>>
filesetVars == <<full_fileset_nano, fileset_args, fileset>>
flattenVars == <<var_dict, new_dict>>
runVars == <<argVars, filesetVars, flattenVars>>
vars == <<pc, JET_ASSIGNMENTS, pairingVars, objectVars, processVars,
          driverVars, runVars, raised>>

(***************************************************************************)
(* Generic array helpers (numpy / awkward / itertools).                    *)
(***************************************************************************)
Abs(x) == IF x < 0 THEN -x ELSE x

\* range(n) as a sequence: <<0, 1, ..., n-1>>
Range(n) == [k \in 1..n |-> k - 1]

\* itertools.combinations(s, 2): all <<s[i], s[j]>>, i < j, in lexicographic
\* order of the positions.
RECURSIVE CombosFrom(_, _, _)
CombosFrom(s, i, j) ==
    IF i >= Len(s) THEN <<>>
    ELSE IF j > Len(s) THEN CombosFrom(s, i + 1, i + 2)
    ELSE <<(<<s[i], s[j]>>)>> \o CombosFrom(s, i, j + 1)

Combinations2(s) == CombosFrom(s, 1, 2)

\* Insertion of x into a sequence sorted in descending order.
RECURSIVE InsertDesc(_, _)
InsertDesc(x, s) ==
    IF s = <<>> THEN <<x>>
    ELSE IF x >= Head(s) THEN <<x>> \o s
    ELSE <<Head(s)>> \o InsertDesc(x, Tail(s))

\* ak.sort(s, ascending=False) along the last axis.
RECURSIVE SortDescending(_)
SortDescending(s) ==
    IF s = <<>> THEN <<>> ELSE InsertDesc(Head(s), SortDescending(Tail(s)))

\* ak.argmin / ak.argmax along the last axis: the first position holding the
\* extreme value.
ArgMin(f) ==
    CHOOSE i \in DOMAIN f :
        /\ \A j \in DOMAIN f : f[i] <= f[j]
        /\ \A j \in DOMAIN f : j < i => f[j] > f[i]

ArgMax(f) ==
    CHOOSE i \in DOMAIN f :
        /\ \A j \in DOMAIN f : f[i] >= f[j]
        /\ \A j \in DOMAIN f : j < i => f[j] < f[i]

(***************************************************************************)
(* matchingSkimmer: constants and the jet-assignment lookup table.         *)
(***************************************************************************)
MIN_JETS == 4
MAX_JETS == 4
HIGGS_MASS == 125

\* len(set(i + j)) == MIN_JETS with a wrong comparison: also keeps
\* combinations of two pairs that share a jet.
IsCoverLoose(ij) ==
    Cardinality({ij[1][1], ij[1][2], ij[2][1], ij[2][2]}) >= MIN_JETS - 1

\* The filter of the list comprehension: len(set(i + j)) == MIN_JETS.
IsCover(ij) ==
    Cardinality({ij[1][1], ij[1][2], ij[2][1], ij[2][2]}) = MIN_JETS

\* a = combinations(range(nj), 2); b = [(i, j) for i, j in combinations(a, 2)
\* if len(set(i + j)) == MIN_JETS]
JetAssignmentsTable(n) ==
    SelectSeq(Combinations2(Combinations2(Range(n))), IsCover)

\* JET_ASSIGNMENTS = {nj: b for nj in range(MIN_JETS, MAX_JETS + 1)}
JetAssignmentsInit == [n \in MIN_JETS..MAX_JETS |-> JetAssignmentsTable(n)]

(***************************************************************************)
(* matchingSkimmer.getJetAssignmentVars, one event.                        *)
(***************************************************************************)
\* "just consider top 4 jets"
nj == 4

\* The unordered pairs of the top-4 jets, as the sorted tuples the table holds.
JetPairs == {ij \in (0..(nj - 1)) \X (0..(nj - 1)) : ij[1] < ij[2]}

Pairings == 1..Len(JET_ASSIGNMENTS[nj])

\* jj = jets[:, A[:, :, 0]] + jets[:, A[:, :, 1]]; mjj = jj.M
\* mjj(a)[p] is the mass of dijet p of pairing a.
mjj(a) == [p \in 1..2 |-> dijet_M[JET_ASSIGNMENTS[nj][a][p]]]

\* chi2 with the two dijets compared to different masses.
Chi2Skewed(a) ==
    (mjj(a)[1] - HIGGS_MASS) * (mjj(a)[1] - HIGGS_MASS) + mjj(a)[2] * mjj(a)[2]

\* chi2 = ak.sum(np.square(mjj - HIGGS_MASS), axis=-1)
Chi2(a) ==
    (mjj(a)[1] - HIGGS_MASS) * (mjj(a)[1] - HIGGS_MASS)
        + (mjj(a)[2] - HIGGS_MASS) * (mjj(a)[2] - HIGGS_MASS)

\* k = 125 / 120
K_NUM == 125
K_DEN == 120
\* the 30 GeV of "is_dhh_tooclose"
DHH_TOOCLOSE == 30

\* mjj_sorted = ak.sort(mjj, ascending=False)
mjj_sorted(a) == SortDescending(mjj(a))

\* delta_d = |m0 - k m1| / sqrt(1 + k^2), times the common positive factor
\* sqrt(K_DEN^2 + K_NUM^2) so that it stays an integer:
\*   |m0 - (K_NUM/K_DEN) m1| / sqrt(1 + (K_NUM/K_DEN)^2)
\*     = |K_DEN m0 - K_NUM m1| / sqrt(K_DEN^2 + K_NUM^2)
DeltaDScaled(a) == Abs(K_DEN * mjj_sorted(a)[1] - K_NUM * mjj_sorted(a)[2])

delta_d == [a \in Pairings |-> DeltaDScaled(a)]

\* x < 30 for a difference x >= 0 of two delta_d values, on the scaled
\* values: x_scaled < 30 sqrt(K_DEN^2 + K_NUM^2), both sides squared.
LessThanTooClose(x) ==
    x < 0 \/ x * x < DHH_TOOCLOSE * DHH_TOOCLOSE * (K_DEN * K_DEN + K_NUM * K_NUM)

\* d_sorted = ak.sort(delta_d, ascending=False)
\* is_dhh_tooclose = (d_sorted[:, 0] - d_sorted[:, 1]) < 30
d_sorted == SortDescending(delta_d)
is_dhh_tooclose == LessThanTooClose(d_sorted[1] - d_sorted[2])

index_mindhh == ArgMin(delta_d)
index_max_com_pt == ArgMax(com_pt)

\* index = ak.where(is_dhh_tooclose, index_max_com_pt, index_mindhh)
DhhIndex == IF is_dhh_tooclose THEN index_max_com_pt ELSE index_mindhh

\* index = ak.argmin(chi2, axis=-1)
Chi2Index == ArgMin([a \in Pairings |-> Chi2(a)])

\* method == "chi2": the early return of lines 346-351.
Chi2Dict ==
    LET first_bb_pair == JET_ASSIGNMENTS[nj][Chi2Index][1]
        second_bb_pair == JET_ASSIGNMENTS[nj][Chi2Index][2]
    IN  [key \in {"ak4Pair0chi2", "ak4Pair1chi2"} |->
            IF key = "ak4Pair0chi2" THEN first_bb_pair ELSE second_bb_pair]

\* The argsort of the two dijet pTs without the reversal [:, ::-1].
SortByJJPtAscending(pt0, pt1) == IF pt0 <= pt1 THEN <<1, 2>> ELSE <<2, 1>>

\* sort_by_jjpt = np.argsort(bbs_jjpt, axis=-1)[:, ::-1]: the ascending stable
\* argsort of the two dijet pTs, reversed (0-based positions in the source,
\* 1-based here).
SortByJJPt(pt0, pt1) == IF pt0 <= pt1 THEN <<2, 1>> ELSE <<1, 2>>

\* The pairs reported as ak4Pair0 and ak4Pair1 taken after the sort.
ReportedPairsSorted(bb_pairs, bb_pairs_sorted) == bb_pairs_sorted

\* "ak4Pair0": first_bb_pair, "ak4Pair1": second_bb_pair (lines 419-420):
\* the pairs as stacked in line 393, not bb_pairs_sorted.
ReportedPairs(bb_pairs, bb_pairs_sorted) == bb_pairs

\* method == "dhh": lines 382-433.  A dijet is reported by the jet pair it
\* is built from together with the kinematics looked up for that pair; eta,
\* phi and deltaR are functions of the same pair and are carried by it.
DhhDict ==
    LET first_bb_pair == JET_ASSIGNMENTS[nj][DhhIndex][1]
        second_bb_pair == JET_ASSIGNMENTS[nj][DhhIndex][2]
        bb_pairs == <<first_bb_pair, second_bb_pair>>
        sort_e == SortByJJPt(dijet_pt[first_bb_pair], dijet_pt[second_bb_pair])
        first_bb_pair_sort == bb_pairs[sort_e[1]]
        second_bb_pair_sort == bb_pairs[sort_e[2]]
        reported == ReportedPairs(bb_pairs,
                                  <<first_bb_pair_sort, second_bb_pair_sort>>)
    IN  [key \in {"ak4Pair0", "ak4Pair1", "ak4Dijet0", "ak4Dijet1",
                  "ak4DijetPt0", "ak4DijetPt1",
                  "ak4DijetMass0", "ak4DijetMass1"} |->
            CASE key = "ak4Pair0" -> reported[1]
              [] key = "ak4Pair1" -> reported[2]
              [] key = "ak4Dijet0" -> first_bb_pair_sort
              [] key = "ak4Dijet1" -> second_bb_pair_sort
              [] key = "ak4DijetPt0" -> dijet_pt[first_bb_pair_sort]
              [] key = "ak4DijetPt1" -> dijet_pt[second_bb_pair_sort]
              [] key = "ak4DijetMass0" -> dijet_M[first_bb_pair_sort]
              [] key = "ak4DijetMass1" -> dijet_M[second_bb_pair_sort]]

\* getJetAssignmentVars(ak4JetVars, method="dhh")
GetJetAssignmentVarsDhh ==
    /\ pc = "start"
    /\ pc' = "dhh"
    /\ jetAssignmentDict' = DhhDict
    /\ UNCHANGED <<JET_ASSIGNMENTS, dijet_M, dijet_pt, com_pt, objectVars,
                   processVars, driverVars, runVars, raised>>

\* getJetAssignmentVars(ak4JetVars, method="chi2")
GetJetAssignmentVarsChi2 ==
    /\ pc = "start"
    /\ pc' = "chi2"
    /\ jetAssignmentDict' = Chi2Dict
    /\ UNCHANGED <<JET_ASSIGNMENTS, dijet_M, dijet_pt, com_pt, objectVars,
                   processVars, driverVars, runVars, raised>>

(***************************************************************************)
(* objects.py: selection criteria.  eta and miniPFRelIso_all in tenths.    *)
(***************************************************************************)
muon_selection ==
    [pt |-> 30, eta |-> 24, miniPFRelIso_all |-> 2, id |-> "Tight"]

electron_selection ==
    [pt |-> 35, eta |-> 25, miniPFRelIso_all |-> 2, id |-> "cutBased"]

ak4_selection == [eta |-> 47, id |-> "Tight"]

ak8_selection == [eta |-> 25, id |-> "Tight"]

\* coll[sel] for a boolean mask sel: the objects of the collection at the
\* positions where the mask is true, in their original order.
RECURSIVE MaskedFrom(_, _, _)
MaskedFrom(coll, sel, i) ==
    IF i > Len(coll) THEN <<>>
    ELSE (IF sel[i] THEN <<coll[i]>> ELSE <<>>) \o MaskedFrom(coll, sel, i + 1)

Masked(coll, sel) == MaskedFrom(coll, sel, 1)

\* sel = (pt >= selection["pt"]) & (eta <= selection["eta"])
\*       & (miniPfRelIso_all <= selection["miniPFRelIso_all"])
\*       & (obj[f"is{selection['id']}"])
\* The same expression in good_muons and in good_electrons.
LeptonSel(l, selection) ==
    /\ l.pt >= selection.pt
    /\ l.eta <= selection.eta
    /\ l.miniPfRelIso_all <= selection.miniPFRelIso_all
    /\ l.is[selection.id]

good_muons(ms, selection) ==
    LET sel == [i \in DOMAIN ms |-> LeptonSel(ms[i], selection)]
    IN  Masked(ms, sel)

good_electrons(es, selection) ==
    LET sel == [i \in DOMAIN es |-> LeptonSel(es[i], selection)]
    IN  Masked(es, sel)

\* The jet test with the boundary included.
Ak4GoodInclusive(j, selection) ==
    j.is[selection.id] /\ Abs(j.eta) <= selection.eta

\* goodjets = (jets[f"is{selection['id']}"]) & (abs(jets.eta) < selection["eta"])
Ak4Good(j, selection) ==
    j.is[selection.id] /\ Abs(j.eta) < selection.eta

\* The veto guard without the isData test.
UseJetVetoAnyData(y, data) == y = "2022"

\* if year == "2022" and isData:
UseJetVeto(y, data) == y = "2022" /\ data

\* jet_veto = get_jetveto(jets, year, run) is the field veto of each jet: the
\* answer of the veto-map lookup for that jet and run.
good_ak4jets(js, y, data, selection) ==
    LET goodjets == [i \in DOMAIN js |->
                        IF UseJetVeto(y, data)
                        THEN Ak4Good(js[i], selection) /\ ~js[i].veto
                        ELSE Ak4Good(js[i], selection)]
    IN  Masked(js, goodjets)

\* A quotient of two numbers, kept as numerator and denominator; a zero
\* denominator is the NaN or infinity of floating-point division.
Ratio(n, d) == [num |-> n, den |-> d]

\* Txbb with the signal score left out of the denominator.
TxbbNoSignalInDen(f) == Ratio(f.particleNetMD_Xbb, f.particleNetMD_QCD)

\* fatjets["Txbb"] = Xbb / (QCD + Xbb)
Txbb(f) ==
    Ratio(f.particleNetMD_Xbb, f.particleNetMD_QCD + f.particleNetMD_Xbb)

\* fatjets["Txjj"] = (Xbb + Xcc + Xqq) / (Xbb + Xcc + Xqq + QCD)
Txjj(f) ==
    Ratio(f.particleNetMD_Xbb + f.particleNetMD_Xcc + f.particleNetMD_Xqq,
          f.particleNetMD_Xbb + f.particleNetMD_Xcc + f.particleNetMD_Xqq
              + f.particleNetMD_QCD)

\* The two item assignments of good_ak8jets: every fat jet of the argument
\* gets the fields Txbb and Txjj.
WithTaggerScores(fs) ==
    [i \in DOMAIN fs |->
        [k \in (DOMAIN fs[i]) \cup {"Txbb", "Txjj"} |->
            IF k = "Txbb" THEN Txbb(fs[i])
            ELSE IF k = "Txjj" THEN Txjj(fs[i])
            ELSE fs[i][k]]]

\* sel = (abs(fatjets.eta) < selection["eta"]) & (fatjets[f"is{selection['id']}"])
Ak8Good(f, selection) ==
    Abs(f.eta) < selection.eta /\ f.is[selection.id]

good_ak8jets(fs, selection) ==
    LET scored == WithTaggerScores(fs)
        sel == [i \in DOMAIN scored |-> Ak8Good(scored[i], selection)]
    IN  Masked(scored, sel)

GoodMuons ==
    /\ pc = "start"
    /\ pc' = "good_muons"
    /\ selected' = good_muons(muons, muon_selection)
    /\ UNCHANGED <<JET_ASSIGNMENTS, pairingVars, muons, electrons, jets,
                   fatjets, year, isData, processVars, driverVars,
                   runVars, raised>>

GoodElectrons ==
    /\ pc = "start"
    /\ pc' = "good_electrons"
    /\ selected' = good_electrons(electrons, electron_selection)
    /\ UNCHANGED <<JET_ASSIGNMENTS, pairingVars, muons, electrons, jets,
                   fatjets, year, isData, processVars, driverVars,
                   runVars, raised>>

GoodAk4Jets ==
    /\ pc = "start"
    /\ pc' = "good_ak4jets"
    /\ selected' = good_ak4jets(jets, year, isData, ak4_selection)
    /\ UNCHANGED <<JET_ASSIGNMENTS, pairingVars, muons, electrons, jets,
                   fatjets, year, isData, processVars, driverVars,
                   runVars, raised>>

\* good_ak8jets assigns the new fields on its argument before it selects.
GoodAk8Jets ==
    /\ pc = "start"
    /\ pc' = "good_ak8jets"
    /\ fatjets' = WithTaggerScores(fatjets)
    /\ selected' = good_ak8jets(fatjets, ak8_selection)
    /\ UNCHANGED <<JET_ASSIGNMENTS, pairingVars, muons, electrons, jets,
                   year, isData, processVars, driverVars, runVars,
                   raised>>

(***************************************************************************)
(* matchingSkimmer.process, one chunk per call.                            *)
(*                                                                         *)
(* A chunk is a record                                                     *)
(*   dataset        events.metadata["dataset"] split at "_"                *)
(*   isData         not hasattr(events, "genWeight")                       *)
(*   partition_key  events.behavior["__events_factory__"]._partition_key,  *)
(*                  a sequence of characters                               *)
(*   events         one record per event: genWeight, and pass, the set of  *)
(*                  named cuts whose boolean expression (lines 259-280) is *)
(*                  true for the event                                     *)
(***************************************************************************)
\* The named cuts in the order process registers them.
CutNames == <<"met_filters", "1ak8_pt", "1ak8_xbb", "2ak4_b", "0lep">>

\* The keys of skimmed_events: ak4JetVars (kinematics, b-tag scores and the
\* two sets of assignment variables), ak8FatJetVars, and the weight.
SkimKeys ==
    {"ak4JetPt", "ak4JetEta", "ak4JetPhi", "ak4JetMass",
     "ak4JetbtagDeepB", "ak4JetbtagDeepFlavB",
     "ak4Pair0", "ak4Pair1", "ak4DijetPt0", "ak4DijetEta0", "ak4DijetPhi0",
     "ak4DijetMass0", "ak4DijetPt1", "ak4DijetEta1", "ak4DijetPhi1",
     "ak4DijetMass1", "ak4DijetDeltaR", "ak4Pair0chi2", "ak4Pair1chi2",
     "ak8FatJetPt", "ak8FatJetEta", "ak8FatJetPhi", "ak8FatJetMass",
     "ak8FatJetMsd", "ak8FatJetPNetXbb", "ak8FatJetPNetXjj",
     "ak8FatJetPNetMass", "weight"}

RECURSIVE SumSeq(_)
SumSeq(s) == IF s = <<>> THEN 0 ELSE Head(s) + SumSeq(Tail(s))

\* np.sign
Sign(x) == IF x > 0 THEN 1 ELSE IF x < 0 THEN -1 ELSE 0

\* year = dataset.split("_")[0]; dataset = "_".join(dataset.split("_")[1:])
YearOf(ch) == Head(ch.dataset)
DatasetOf(ch) == Tail(ch.dataset)

\* "HHTobbbb" in dataset: the substring has no "_", so it lies within one of
\* the parts; of the part names used here only "HHTobbbb" contains it.
IsSignal(ch) == \E i \in DOMAIN DatasetOf(ch) : DatasetOf(ch)[i] = "HHTobbbb"

\* gen_weights with the raw weights for signal too.
GenWeightsRaw(ch) ==
    IF ~ch.isData THEN [e \in DOMAIN ch.events |-> ch.events[e].genWeight]
    ELSE <<>>

\* gen_weights: signs for signal, raw weights for other simulation, None
\* (here: the empty sequence) for data.
GenWeights(ch) ==
    IF IsSignal(ch) THEN [e \in DOMAIN ch.events |-> Sign(ch.events[e].genWeight)]
    ELSE IF ~ch.isData THEN [e \in DOMAIN ch.events |-> ch.events[e].genWeight]
    ELSE <<>>

\* n_events with the number of events used for simulation too.
NEventsCounted(ch) == Len(ch.events)

\* n_events = len(events) if isData else np.sum(gen_weights)
NEvents(ch) == IF ch.isData THEN Len(ch.events) ELSE SumSeq(GenWeights(ch))

\* PackedSelection.all(*selection.names): the AND of every registered mask.
\* A selection is the sequence of its <<name, mask>> entries.
SelectionAll(selection, n) ==
    [e \in 1..n |-> \A k \in DOMAIN selection : selection[k].mask[e]]

\* sel_all built from the last registered mask alone.
SelAllLastCut(selection, n) ==
    [e \in 1..n |-> selection[Len(selection)].mask[e]]

\* sel_all = selection.all(*selection.names)
SelAll(selection, n) == SelectionAll(selection, n)

\* utils.add_selection(name, sel, selection, cutflow, isData, gen_weights):
\* registers the mask and records, under the name, the number (data) or the
\* summed generator weight (simulation) of the events passing every mask
\* registered so far.  Returns the new <<selection, cutflow>>.
AddSelection(name, sel, selection, cutflow, data, gen_weights) ==
    LET selection2 == Append(selection, [name |-> name, mask |-> sel])
        n == Len(sel)
        passing == SelectionAll(selection2, n)
        counted == [e \in 1..n |->
                       IF ~passing[e] THEN 0
                       ELSE IF data THEN 1 ELSE gen_weights[e]]
    IN  <<selection2,
          Append(cutflow, [name |-> name, count |-> SumSeq(counted)])>>

\* The five add_selection calls of lines 264-280, in order, from the k-th.
RECURSIVE AddCuts(_, _, _, _)
AddCuts(ch, k, selection, cutflow) ==
    IF k > Len(CutNames) THEN <<selection, cutflow>>
    ELSE LET sel == [e \in DOMAIN ch.events |->
                        CutNames[k] \in ch.events[e].pass]
             sc == AddSelection(CutNames[k], sel, selection, cutflow,
                                ch.isData, GenWeights(ch))
         IN  AddCuts(ch, k + 1, sc[1], sc[2])

\* common.LUMI[year], in units that keep the products integral.
LUMI(y) == IF y = "2022" THEN 8 ELSE 27

\* weight_norm without the luminosity.
WeightNormXsecOnly(ch, xsecs) ==
    IF DatasetOf(ch) \in DOMAIN xsecs THEN xsecs[DatasetOf(ch)] ELSE 1

\* weight_norm = xsec * LUMI[year] if dataset in self.XSECS else 1
WeightNorm(ch, xsecs) ==
    IF DatasetOf(ch) \in DOMAIN xsecs
    THEN xsecs[DatasetOf(ch)] * LUMI(YearOf(ch))
    ELSE 1

\* logger.warning (line 289): the messages process logs.
Warnings(ch, xsecs) ==
    IF DatasetOf(ch) \in DOMAIN xsecs THEN <<>>
    ELSE <<"Weight not normalized to cross section">>

\* skimmed_events["weight"]: np.ones(n_events) for data, else
\* weights.weight() * weight_norm with the one weight "genweight".
WeightColumn(ch, xsecs) ==
    IF ch.isData THEN [e \in 1..NEvents(ch) |-> 1]
    ELSE [e \in DOMAIN ch.events |-> GenWeights(ch)[e] * WeightNorm(ch, xsecs)]

\* skimmed_events before the selection: every column has one row per event.
\* A row of a derived column is named by the event it was computed from.
SkimmedEvents(ch, xsecs) ==
    [key \in SkimKeys |->
        IF key = "weight" THEN WeightColumn(ch, xsecs)
        ELSE [e \in DOMAIN ch.events |-> <<key, e>>]]

\* value[sel_all]: the rows at the positions the mask holds, in order.
ApplyMask(column, mask) == Masked(column, mask)

\* str.replace("/", "_"), character by character.
ReplaceSlash(key) ==
    [i \in DOMAIN key |-> IF key[i] = "/" THEN "_" ELSE key[i]]

\* fname = _partition_key.replace("/", "_") + ".parquet"
FName(ch) == ReplaceSlash(ch.partition_key) \o <<".parquet">>

\* The local variables of process(events) when it returns.
ProcessFrame(ch, xsecs) ==
    LET n_events == NEvents(ch)
        cutflow0 == <<[name |-> "all", count |-> n_events]>>
        sc == AddCuts(ch, 1, <<>>, cutflow0)
        selection == sc[1]
        cutflow == sc[2]
        skimmed == SkimmedEvents(ch, xsecs)
        sel_all == SelAll(selection, Len(ch.events))
    IN  [gen_weights |-> GenWeights(ch),
         weight_norm |-> WeightNorm(ch, xsecs),
         warnings |-> Warnings(ch, xsecs),
         n_events |-> n_events,
         selection |-> selection,
         cutflow |-> cutflow,
         sel_all |-> sel_all,
         skimmed_events |->
             [key \in SkimKeys |-> ApplyMask(skimmed[key], sel_all)],
         fname |-> FName(ch),
         return |-> [year |-> YearOf(ch), dataset |-> DatasetOf(ch),
                     nevents |-> n_events, cutflow |-> cutflow]]

\* process(events) for chunk c, with dump_table: the table is written to
\* ./outparquet/<fname>, replacing a file of that name.
Process(c) ==
    /\ c \in DOMAIN chunks
    /\ frame[c] = <<>>
    /\ pc' = "process"
    /\ LET f == ProcessFrame(chunks[c], XSECS)
       IN  /\ frame' = [frame EXCEPT ![c] = f]
           /\ outparquet' =
                  [n \in (DOMAIN outparquet) \cup {f.fname} |->
                      IF n = f.fname THEN f.skimmed_events ELSE outparquet[n]]
    /\ UNCHANGED <<JET_ASSIGNMENTS, pairingVars, objectVars, XSECS, chunks,
                   driverVars, runVars, raised>>

(***************************************************************************)
(* TrainBDT.py: _get_bdt_scores.  Probabilities are integers in units of   *)
(* 1/P_UNITS; a row of preds holds one probability per class.              *)
(***************************************************************************)
\* training_keys = args.sig_keys + args.bg_keys
TrainingKeys(sig, bg) == sig \o bg

\* preds[:, lo:hi] with 0-based lo and exclusive hi: the columns lo+1..hi of
\* every row.
Columns(p, lo, hi) == [r \in DOMAIN p |-> SubSeq(p[r], lo + 1, hi)]

\* The background total taken over every column of the row.
BgTotAllColumns(row, k) == SumSeq(row)

\* bg_tot = np.sum(preds[:, len(sig_keys):], axis=1, keepdims=True), one row
BgTot(row, k) == SumSeq(SubSeq(row, k + 1, Len(row)))

\* _get_bdt_scores(preds, sig_keys, multiclass)
get_bdt_scores(p, sig, multi) ==
    IF ~multi THEN [r \in DOMAIN p |-> SubSeq(p[r], 2, Len(p[r]))]
    ELSE IF Len(sig) = 1 THEN Columns(p, 0, 1)
    ELSE [r \in DOMAIN p |->
             [s \in 1..Len(sig) |->
                 Ratio(p[r][s], p[r][s] + BgTot(p[r], Len(sig)))]]

GetBdtScores ==
    /\ pc = "start"
    /\ pc' = "_get_bdt_scores"
    /\ bdt_scores' = get_bdt_scores(preds, sig_keys, multiclass)
    /\ UNCHANGED <<JET_ASSIGNMENTS, pairingVars, objectVars, processVars,
                   preds, sig_keys, bg_keys, multiclass, weightVars, mainVars,
                   loadVars, runVars, raised>>

(***************************************************************************)
(* TrainBDT.py: the weight step of preprocess_data (lines 147-205).        *)
(* events_dict[key] is the finalWeight column of sample key; the "weight"  *)
(* column of events is kept per sample key, every entry a Ratio.           *)
(***************************************************************************)
\* The elements of a sequence.
Elems(s) == {s[i] : i \in DOMAIN s}

\* a/b + c/d
RatioAdd(x, y) == Ratio(x.num * y.den + y.num * x.den, x.den * y.den)

\* The sum of a column of Ratios.
RECURSIVE RatioSum(_)
RatioSum(s) ==
    IF s = <<>> THEN Ratio(0, 1) ELSE RatioAdd(Head(s), RatioSum(Tail(s)))

\* weights_bdt[key] without the absolute value.
WeightsBdtSigned(ed, key) == ed[key]

\* weights_bdt[key] = np.abs(events_dict[key]["finalWeight"].to_numpy())
WeightsBdt(ed, key) == [i \in DOMAIN ed[key] |-> Abs(ed[key][i])]

\* The first element of a non-empty array.
AFirst(s) == s[1]

\* np.amin of a non-empty array
AMin(s) == CHOOSE x \in Elems(s) : \A y \in Elems(s) : x <= y

\* np.concatenate([weights_bdt[key] for key in keys]), from the k-th key
RECURSIVE ConcatWeights(_, _, _)
ConcatWeights(ed, keys, k) ==
    IF k > Len(keys) THEN <<>>
    ELSE WeightsBdt(ed, keys[k]) \o ConcatWeights(ed, keys, k + 1)

\* if run2_wapproach: every weight times 1 / (smallest weight), the smallest
\* taken over all backgrounds together and over each signal on its own.
\* x[x < 0] = 0 changes nothing in an array of absolute values.
Run2Weights(ed, sig, bg) ==
    LET bkg_weight_min == AMin(ConcatWeights(ed, bg, 1))
    IN  [key \in Elems(sig) \cup Elems(bg) |->
            LET w == WeightsBdt(ed, key)
            IN  IF key \in Elems(sig)
                THEN [i \in DOMAIN w |-> Ratio(w[i], AMin(w))]
                ELSE [i \in DOMAIN w |-> Ratio(w[i], bkg_weight_min)]]

\* bkg_total = np.sum([np.sum(weights_bdt[key]) for key in args.bg_keys])
BkgTotal(ed, bg) == SumSeq(ConcatWeights(ed, bg, 1))

\* if equalize_weights: weights_bdt[sig_key] * (bkg_total / sig_total) / num_sigs
\* for the signals, weights_bdt[key] for the backgrounds (assigned last).
EqualizedWeights(ed, sig, bg) ==
    LET bkg_total == BkgTotal(ed, bg)
        num_sigs == Len(sig)
    IN  [key \in Elems(sig) \cup Elems(bg) |->
            LET w == WeightsBdt(ed, key)
                sig_total == SumSeq(w)
            IN  IF key \in Elems(bg)
                THEN [i \in DOMAIN w |-> Ratio(w[i], 1)]
                ELSE [i \in DOMAIN w |->
                         Ratio(w[i] * bkg_total, sig_total * num_sigs)]]

\* x[x < 0] = 0, in place
FloorNegative(w) == [i \in DOMAIN w |-> IF w[i] < 0 THEN 0 ELSE w[i]]

\* weights_bdt after the run-2 block (lines 173, 181): every array has had
\* its negative entries set to 0 in place.
Run2Floored(ed, sig, bg) ==
    [key \in Elems(sig) \cup Elems(bg) |-> FloorNegative(WeightsBdt(ed, key))]

\* events.loc[key, "weight"] = ... for every key of new, leaving the rows
\* that already have a weight as they are.
AssignIfAbsent(column, new) ==
    [key \in (DOMAIN column) \cup (DOMAIN new) |->
        IF key \in DOMAIN column THEN column[key] ELSE new[key]]

\* events.loc[key, "weight"] = ... for every key of new
AssignWeights(column, new) ==
    [key \in (DOMAIN column) \cup (DOMAIN new) |->
        IF key \in DOMAIN new THEN new[key] ELSE column[key]]

\* The "weight" column after both blocks, each assigning the rows of every
\* signal and background key when it runs: the run-2 block first, then the
\* equalize block on the weights_bdt the run-2 block has left.  With
\* neither block the column does not exist.
WeightColumnBdt(ed, sig, bg, equalize, run2) ==
    LET after_run2 ==
            IF run2 THEN AssignWeights(<<>>, Run2Weights(ed, sig, bg))
            ELSE <<>>
        weights_bdt == IF run2 THEN Run2Floored(ed, sig, bg) ELSE ed
    IN  IF equalize
        THEN AssignWeights(after_run2, EqualizedWeights(weights_bdt, sig, bg))
        ELSE after_run2

\* The columns bdt_dataframe of the configuration module gives a table.
BdtFeatures == {"H1Msd", "H2Msd", "HHPt"}

\* The columns of events when it is split: the features, "weight" if a
\* weight block has assigned it, "target" and "event" (lines 208, 219).
EventsColumns(equalize, run2) ==
    BdtFeatures \cup (IF equalize \/ run2 THEN {"weight"} ELSE {})
                \cup {"target", "event"}

\* features = events.drop(columns=["target", "event"])
FeaturesColumns(equalize, run2) ==
    EventsColumns(equalize, run2) \ {"target", "event"}

\* X.drop(columns=["weight"])
DropWeight(columns) == columns \ {"weight"}

\* The index of events: pd.concat(..., keys=training_keys) from the k-th
\* key: the rows of each sample, sample after sample.
RECURSIVE RowsFrom(_, _, _)
RowsFrom(ed, keys, k) ==
    IF k > Len(keys) THEN <<>>
    ELSE [i \in DOMAIN ed[keys[k]] |-> <<keys[k], i>>]
             \o RowsFrom(ed, keys, k + 1)

\* The position of a key in training_keys (LabelEncoder.transform), 0-based.
LabelOf(keys, key) == (CHOOSE i \in DOMAIN keys : keys[i] = key) - 1

\* events["target"] (lines 208-210) and target (lines 212-216)
SimpleTarget(sig, key) == IF key \in Elems(sig) THEN 1 ELSE 0
Target(sig, bg, multi, key) ==
    IF multi THEN LabelOf(TrainingKeys(sig, bg), key) ELSE SimpleTarget(sig, key)

\* --test-size, default 0.4
TEST_SIZE_NUM == 2
TEST_SIZE_DEN == 5

\* train_test_split: n_test = ceil(test_size * n)
NTest(n) == (TEST_SIZE_NUM * n + TEST_SIZE_DEN - 1) \div TEST_SIZE_DEN

\* The permutations the shuffle of train_test_split is taken from: the
\* order of the rows kept, and reversed.
Shuffles(n) == {[i \in 1..n |-> i], [i \in 1..n |-> n + 1 - i]}

\* train_test_split(..., shuffle=True) for a permutation of the rows:
\* the first n_test rows of the permutation are the test partition, the
\* others the training partition.
TrainTestSplit(rows, perm) ==
    LET n == Len(rows)
    IN  [test |-> [i \in 1..NTest(n) |-> rows[perm[i]]],
         train |-> [i \in 1..(n - NTest(n)) |-> rows[perm[NTest(n) + i]]]]

\* The values preprocess_data returns (lines 225-262): X_* are the feature
\* partitions after the weight column is dropped.
Partitions(ed, sig, bg, multi, equalize, run2, perm) ==
    LET sp == TrainTestSplit(RowsFrom(ed, TrainingKeys(sig, bg), 1), perm)
        weight == WeightColumnBdt(ed, sig, bg, equalize, run2)
        X(index) == [columns |-> DropWeight(FeaturesColumns(equalize, run2)),
                     index |-> index]
        W(index) == [r \in DOMAIN index |-> weight[index[r][1]][index[r][2]]]
        Y(index) == [r \in DOMAIN index |-> Target(sig, bg, multi, index[r][1])]
        YT(index) == [r \in DOMAIN index |-> SimpleTarget(sig, index[r][1])]
    IN  [X_train |-> X(sp.train), X_test |-> X(sp.test),
         y_train |-> Y(sp.train), y_test |-> Y(sp.test),
         weights_train |-> W(sp.train), weights_test |-> W(sp.test),
         yt_train |-> YT(sp.train), yt_test |-> YT(sp.test)]

\* preprocess_data: without a "weight" column X_train["weight"] (line 237)
\* raises KeyError and nothing is returned.
PreprocessData ==
    /\ pc = "start"
    /\ pc' = "preprocess_data"
    /\ events' = WeightColumnBdt(events_dict, sig_keys, bg_keys,
                                 equalize_weights, run2_wapproach)
    /\ IF "weight" \in FeaturesColumns(equalize_weights, run2_wapproach)
       THEN /\ raised' = ""
            /\ \E perm \in Shuffles(Len(RowsFrom(events_dict,
                                   TrainingKeys(sig_keys, bg_keys), 1))) :
                   data_split' =
                       Partitions(events_dict, sig_keys, bg_keys, multiclass,
                                  equalize_weights, run2_wapproach, perm)
       ELSE /\ raised' = "KeyError"
            /\ data_split' = <<>>
    /\ UNCHANGED <<JET_ASSIGNMENTS, pairingVars, objectVars, processVars,
                   preds, sig_keys, bg_keys, multiclass, bdt_scores,
                   events_dict, equalize_weights, run2_wapproach, mainVars,
                   loadVars, runVars>>

WeightsIdle ==
    /\ events_dict = <<>>
    /\ equalize_weights = TRUE
    /\ run2_wapproach = FALSE
    /\ events = <<>>
    /\ data_split = <<>>

(***************************************************************************)
(* TrainBDT.py: the argument --year and main's load stage (lines           *)
(* 1021-1055).  A Python string is a string here and a list a sequence;    *)
(* args.year, which is a string or a list of strings, is a record of the   *)
(* flag is_list and of its items (the one string, or the list's elements). *)
(* A sample catalog maps a year to a mapping from sample key to sample     *)
(* names; an event table is a record of the years and key it was loaded    *)
(* for and of whether the cuts were applied to it.                         *)
(***************************************************************************)
\* hh_vars.years
hh_vars_years == <<"2022", "2022EE", "2023", "2023BPix">>

\* choices=hh_vars.years + ["2022-2023"]
YearChoices == hh_vars_years \o <<"2022-2023">>

\* default=["2022EE"]
YearDefault == [is_list |-> TRUE, items |-> <<"2022EE">>]

\* The characters of a string, as iterating over it or indexing it gives.
StrChars(str) ==
    CASE str = "2022" -> <<"2", "0", "2", "2">>
      [] str = "2022EE" -> <<"2", "0", "2", "2", "E", "E">>
      [] str = "2023" -> <<"2", "0", "2", "3">>
      [] str = "2023BPix" -> <<"2", "0", "2", "3", "B", "P", "i", "x">>
      [] str = "2022-2023" ->
             <<"2", "0", "2", "2", "-", "2", "0", "2", "3">>

\* parser.add_argument("--year", type=str, default=[...], choices=...) and
\* parse_args: the option takes one string, checked against the choices;
\* without the option args.year is the default.
ParseYear(values) ==
    IF values = <<>> THEN [year |-> YearDefault, raised |-> ""]
    ELSE IF Len(values) = 1 /\ values[1] \in Elems(YearChoices)
    THEN [year |-> [is_list |-> FALSE, items |-> values], raised |-> ""]
    ELSE [year |-> YearDefault, raised |-> "SystemExit"]

\* args.year == "2022-2023"
IsCombined(ay) == ~ay.is_list /\ ay.items[1] = "2022-2023"

\* for ... in args.year, and args.year[0]: the elements of a list, the
\* characters of a string.
ItemsOf(ay) == IF ay.is_list THEN ay.items ELSE StrChars(ay.items[1])

\* years (lines 1024-1027)
YearsOf(ay) ==
    IF IsCombined(ay) THEN <<"2022", "2022EE", "2023", "2023BPix">>
    ELSE ItemsOf(ay)

\* The catalog of a year left as it is.
RestrictCopy(catalog, training_keys) == catalog

\* lines 1032-1034: every key that is not a training key is popped.
Restrict(catalog, training_keys) ==
    [key \in (DOMAIN catalog) \cap Elems(training_keys) |-> catalog[key]]

\* postprocessing.load_run3_samples: one event table per key of the year's
\* catalog.
load_run3_samples(y, catalogs) ==
    [key \in DOMAIN catalogs[y] |-> [years |-> {y}, key |-> key, cuts |-> FALSE]]

\* apply_cuts (lines 103-125): every table is replaced by its selected rows.
ApplyCuts(ed) == [key \in DOMAIN ed |-> [ed[key] EXCEPT !.cuts = TRUE]]

\* A year's tables as main stores them (lines 1035-1048, 1158-1168).
LoadYear(y, catalogs, cuts) ==
    IF cuts THEN ApplyCuts(load_run3_samples(y, catalogs))
    ELSE load_run3_samples(y, catalogs)

\* postprocessing.combine_run3_samples: per training key, the tables of the
\* years put together.
combine_run3_samples(edy, training_keys) ==
    [key \in Elems(training_keys) |->
        [years |-> {y \in DOMAIN edy : key \in DOMAIN edy[y]},
         key |-> key,
         cuts |-> \E y \in DOMAIN edy :
                      key \in DOMAIN edy[y] /\ edy[y][key].cuts]]

\* The loop of lines 1030-1048 from the k-th year; samples_run3[year] of a
\* year that is not in the catalog is a KeyError, which leaves the catalog
\* as the earlier iterations made it.
RECURSIVE LoadFrom(_, _, _, _, _, _)
LoadFrom(years, k, catalogs, edy, training_keys, cuts) ==
    IF k > Len(years)
    THEN [samples_run3 |-> catalogs, events_dict_years |-> edy, raised |-> ""]
    ELSE IF years[k] \notin DOMAIN catalogs
    THEN [samples_run3 |-> catalogs, events_dict_years |-> edy,
          raised |-> "KeyError"]
    ELSE LET y == years[k]
             popped == [catalogs EXCEPT ![y] = Restrict(@, training_keys)]
         IN  LoadFrom(years, k + 1, popped,
                      [z \in (DOMAIN edy) \cup {y} |->
                          IF z = y THEN LoadYear(y, popped, cuts) ELSE edy[z]],
                      training_keys, cuts)

LoadUnchanged ==
    UNCHANGED <<JET_ASSIGNMENTS, pairingVars, objectVars, processVars,
                sig_keys, bg_keys, scoreVars, weightVars, mainVars, runVars>>

\* lines 1185-1191 and 1240: the command line is parsed.
MainParseArgs ==
    /\ pc = "start"
    /\ pc' = "parse_args"
    /\ LET r == ParseYear(year_argv)
       IN  /\ args_year' = r.year
           /\ raised' = r.raised
    /\ UNCHANGED <<year_argv, apply_cuts, samples_run3, events_dict_years,
                   main_year, main_events_dict>>
    /\ LoadUnchanged

\* lines 1021-1055: the load stage, up to the choice of year and events_dict.
MainLoad ==
    /\ pc = "parse_args" /\ raised = ""
    /\ pc' = "load"
    /\ LET training_keys == TrainingKeys(sig_keys, bg_keys)
           r == LoadFrom(YearsOf(args_year), 1, samples_run3, <<>>,
                         training_keys, apply_cuts)
       IN  /\ samples_run3' = r.samples_run3
           /\ events_dict_years' = r.events_dict_years
           /\ raised' = r.raised
           /\ IF r.raised # ""
              THEN UNCHANGED <<main_year, main_events_dict>>
              ELSE IF IsCombined(args_year)
              THEN /\ main_year' = "2022-2023"
                   /\ main_events_dict' =
                          combine_run3_samples(r.events_dict_years,
                                               training_keys)
              ELSE /\ main_year' = ItemsOf(args_year)[1]
                   /\ main_events_dict' =
                          r.events_dict_years[ItemsOf(args_year)[1]]
    /\ UNCHANGED <<year_argv, args_year, apply_cuts>>
    /\ LoadUnchanged

\* lines 1057-1077, preprocess_data: events_dict[key] of a training key
\* without a table is a KeyError.
MainPreprocessData ==
    /\ pc = "load" /\ raised = ""
    /\ pc' = "main"
    /\ raised' = IF Elems(TrainingKeys(sig_keys, bg_keys))
                        \subseteq DOMAIN main_events_dict
                 THEN "" ELSE "KeyError"
    /\ UNCHANGED loadVars
    /\ LoadUnchanged

\* hh_vars.samples_run3 of one year: the sample names of each key.
SampleNames(key) == <<key>>

\* The keys hh_vars.samples_run3 may hold for a year.
BaseKeySets ==
    <<{"hh4b", "vbfhh4b", "qcd", "ttbar", "data"}, {"hh4b", "ttbar", "data"}>>

\* The QCD bins of lines 77-86.
QCD_BINS ==
    <<"QCD_HT-1000to1200", "QCD_HT-1200to1500", "QCD_HT-1500to2000",
      "QCD_HT-2000", "QCD_HT-400to600", "QCD_HT-600to800",
      "QCD_HT-800to1000">>

\* A year's catalog after the module body has run (lines 76-86): the key
\* "qcd" holds the bins, whether the base catalog had the key or not.
SamplesAtImport(keys) ==
    [key \in keys \cup {"qcd"} |->
        IF key = "qcd" THEN QCD_BINS ELSE SampleNames(key)]

\* The catalogs of the four years when main starts.
Catalogs ==
    {[y \in Elems(hh_vars_years) |-> SamplesAtImport(BaseKeySets[c[y]])] :
        c \in [Elems(hh_vars_years) -> DOMAIN BaseKeySets]}

\* The state of the load stage of a run with the default --year.
LoadIdle ==
    /\ year_argv = <<>>
    /\ args_year = YearDefault
    /\ apply_cuts = TRUE
    /\ samples_run3 = <<>>
    /\ events_dict_years = <<>>
    /\ main_year = "2022EE"
    /\ main_events_dict = <<>>

(***************************************************************************)
(* TrainBDT.py: main, from the creation of the model directory (line 1079) *)
(* on, one action per call it makes.  A file of model_dir is named by a    *)
(* tuple and holds "prior" if it was there before the run and "run" if the *)
(* run wrote it.                                                           *)
(***************************************************************************)
MODEL_FILE == <<"trained_bdt.model">>
EVALS_FILE == <<"evals_result.txt">>

\* Writing the files named in the set names, each with the same content.
WriteFiles(dir, names, content) ==
    [f \in (DOMAIN dir) \cup names |-> IF f \in names THEN content ELSE dir[f]]

\* The branch of line 1095 never taken.
EvaluateOnlyBranchNever(eo) == FALSE

\* if args.evaluate_only:
EvaluateOnlyBranch(eo) == eo

MainUnchanged ==
    UNCHANGED <<JET_ASSIGNMENTS, pairingVars, objectVars, processVars,
                sig_keys, bg_keys, scoreVars, weightVars, evaluate_only,
                year_argv, args_year, apply_cuts, samples_run3,
                events_dict_years, main_year, runVars>>

\* lines 1079-1085: the directories are made and the test-event numbers of
\* every training key are saved.
MainSaveEvents ==
    /\ pc = "main" /\ raised = ""
    /\ pc' = "np.save"
    /\ model_dir' =
           WriteFiles(model_dir,
                      {<<"inferences", main_year, key>> :
                           key \in Elems(TrainingKeys(sig_keys, bg_keys))},
                      "run")
    /\ UNCHANGED <<model, calls, raised, main_events_dict>>
    /\ MainUnchanged

\* lines 1096-1098: model.load_model fails when the file is not there.
MainLoadModel ==
    /\ pc = "np.save" /\ raised = ""
    /\ EvaluateOnlyBranch(evaluate_only)
    /\ pc' = "load_model"
    /\ IF MODEL_FILE \in DOMAIN model_dir
       THEN /\ model' = [model EXCEPT !.model = model_dir[MODEL_FILE]]
            /\ raised' = ""
       ELSE /\ model' = model
            /\ raised' = "XGBoostError"
    /\ UNCHANGED <<model_dir, calls, main_events_dict>>
    /\ MainUnchanged

\* lines 1100-1101: the evaluation log is opened for reading and evaluated.
MainLoadEvals ==
    /\ pc = "load_model" /\ raised = ""
    /\ pc' = "trained"
    /\ IF EVALS_FILE \in DOMAIN model_dir
       THEN /\ model' = [model EXCEPT !.evals_result = model_dir[EVALS_FILE]]
            /\ raised' = ""
       ELSE /\ model' = model
            /\ raised' = "FileNotFoundError"
    /\ UNCHANGED <<model_dir, calls, main_events_dict>>
    /\ MainUnchanged

\* line 1103, train_model (lines 281-323): the fit, save_model and the
\* write of evals_result.txt.
MainTrainModel ==
    /\ pc = "np.save" /\ raised = ""
    /\ ~EvaluateOnlyBranch(evaluate_only)
    /\ pc' = "train_model"
    /\ model_dir' = WriteFiles(model_dir, {MODEL_FILE, EVALS_FILE}, "run")
    /\ model' = [model |-> "run", evals_result |-> "run"]
    /\ calls' = Append(calls, <<"train_model",
                                TrainingKeys(sig_keys, bg_keys)>>)
    /\ UNCHANGED <<raised, main_events_dict>>
    /\ MainUnchanged

\* line 1115
MainPlotLosses ==
    /\ pc = "train_model" /\ raised = ""
    /\ pc' = "trained"
    /\ model_dir' = WriteFiles(model_dir, {<<"losses.pdf">>}, "run")
    /\ calls' = Append(calls, <<"plot_losses", model.evals_result, multiclass>>)
    /\ UNCHANGED <<model, raised, main_events_dict>>
    /\ MainUnchanged

\* line 1118
MainPlotTrainTest ==
    /\ pc = "trained" /\ raised = ""
    /\ pc' = "plot_train_test"
    /\ calls' = Append(calls, <<"plot_train_test", model.model, multiclass,
                                sig_keys>>)
    /\ UNCHANGED <<model_dir, model, raised, main_events_dict>>
    /\ MainUnchanged

\* line 1136
MainEvaluateModel ==
    /\ pc = "plot_train_test" /\ raised = ""
    /\ pc' = "evaluate_model"
    /\ calls' = Append(calls, <<"evaluate_model", model.model, multiclass,
                                sig_keys, bg_keys>>)
    /\ UNCHANGED <<model_dir, model, raised, main_events_dict>>
    /\ MainUnchanged

\* years_test (line 1157)
years_test == <<"2022", "2022EE", "2023", "2023BPix">>

\* lines 1155-1180: the tables of every year of years_test are loaded from
\* the shared catalog, then plot_allyears is called on them.
MainPlotAllYears ==
    /\ pc = "evaluate_model" /\ raised = ""
    /\ pc' = "plot_allyears"
    /\ IF Elems(years_test) \subseteq DOMAIN samples_run3
       THEN /\ main_events_dict' =
                   [y \in Elems(years_test) |->
                       LoadYear(y, samples_run3, apply_cuts)]
            /\ calls' = Append(calls, <<"plot_allyears", model.model,
                                        multiclass, sig_keys, bg_keys>>)
            /\ raised' = ""
       ELSE /\ raised' = "KeyError"
            /\ UNCHANGED <<main_events_dict, calls>>
    /\ UNCHANGED <<model_dir, model>>
    /\ MainUnchanged

MainIdle ==
    /\ LoadIdle
    /\ evaluate_only = FALSE
    /\ model_dir = <<>>
    /\ model = [model |-> "none", evals_result |-> "none"]
    /\ calls = <<>>

\* No call into TrainBDT.py in progress.
DriverIdle ==
    /\ preds = <<>>
    /\ sig_keys = <<"hh4b">>
    /\ bg_keys = <<"qcd", "ttbar">>
    /\ multiclass = TRUE
    /\ bdt_scores = <<>>
    /\ WeightsIdle
    /\ MainIdle
    /\ raised = ""

(***************************************************************************)
(* run_utils.py: add_bool_arg, and argparse as far as add_bool_arg uses    *)
(* it.  A string is the sequence of its characters.  A parser is its       *)
(* option strings, each with the destination and the constant it stores,   *)
(* and its defaults by destination; all options here are in one mutually   *)
(* exclusive group.                                                        *)
(***************************************************************************)
\* str.split(sep) for a one-character sep: the pieces between separators.
RECURSIVE Split(_, _)
Split(str, sep) ==
    IF \A i \in DOMAIN str : str[i] # sep THEN <<str>>
    ELSE LET i == CHOOSE k \in DOMAIN str :
                      str[k] = sep /\ \A j \in 1..(k - 1) : str[j] # sep
         IN  <<SubSeq(str, 1, i - 1)>> \o Split(SubSeq(str, i + 1, Len(str)), sep)

\* sep.join(pieces)
RECURSIVE Join(_, _)
Join(sep, pieces) ==
    IF Len(pieces) = 0 THEN <<>>
    ELSE IF Len(pieces) = 1 THEN pieces[1]
    ELSE pieces[1] \o sep \o Join(sep, Tail(pieces))

\* The destination taken to be the flag name itself.
VarNameVerbatim(name) == name

\* varname = "_".join(name.split("-"))
VarName(name) == Join(<<"_">>, Split(name, "-"))

\* no_name = "no-" + name when no_name is None
NoName(name, no_name) ==
    IF no_name.isNone THEN <<"n", "o", "-">> \o name ELSE no_name.value

PosOption(name) == <<"-", "-">> \o name
NegOption(name, no_name) == <<"-", "-">> \o NoName(name, no_name)

\* group.add_argument(option, dest=varname, action=...)
AddArgument(p, option, dest, const) ==
    [options |-> [o \in (DOMAIN p.options) \cup {option} |->
                     IF o = option THEN [dest |-> dest, const |-> const]
                     ELSE p.options[o]],
     defaults |-> p.defaults]

\* parser.set_defaults(**{varname: default})
SetDefaults(p, dest, default) ==
    [options |-> p.options,
     defaults |-> [d \in (DOMAIN p.defaults) \cup {dest} |->
                      IF d = dest THEN default ELSE p.defaults[d]]]

\* add_bool_arg(parser, name, help, default, no_name); an option string that
\* is already registered is a conflict and ends the call.
AddBoolArg ==
    /\ pc = "start"
    /\ pc' = "add_bool_arg"
    /\ LET name == bool_arg.name
           varname == VarName(name)
           p1 == AddArgument(parser, PosOption(name), varname, TRUE)
           neg == NegOption(name, bool_arg.no_name)
           p2 == AddArgument(p1, neg, varname, FALSE)
       IN  IF neg \in DOMAIN p1.options
           THEN /\ parser' = p1
                /\ raised' = "ArgumentError"
           ELSE /\ parser' = SetDefaults(p2, varname, bool_arg.default)
                /\ raised' = ""
    /\ UNCHANGED <<JET_ASSIGNMENTS, pairingVars, objectVars, processVars,
                   driverVars, bool_arg, argv, namespace, filesetVars,
                   flattenVars>>

IsPrefix(a, b) == Len(a) <= Len(b) /\ SubSeq(b, 1, Len(a)) = a

\* The option strings an argument selects: itself when it is registered,
\* else every registered option it abbreviates.
Matching(p, arg) ==
    IF arg \in DOMAIN p.options THEN {arg}
    ELSE {o \in DOMAIN p.options : IsPrefix(arg, o)}

\* parse_args over the arguments from position k on.  ns is the namespace so
\* far, seen the options used so far.  An argument selecting no or several
\* options, and two different options of the group, end the parse with an
\* error (the empty namespace and SystemExit).
RECURSIVE ParseFrom(_, _, _, _, _)
ParseFrom(p, args, k, ns, seen) ==
    IF k > Len(args) THEN [namespace |-> ns, raised |-> ""]
    ELSE LET m == Matching(p, args[k])
         IN  IF Cardinality(m) # 1
             THEN [namespace |-> <<>>, raised |-> "SystemExit"]
             ELSE LET o == CHOOSE x \in m : TRUE
                  IN  IF seen \ {o} # {}
                      THEN [namespace |-> <<>>, raised |-> "SystemExit"]
                      ELSE ParseFrom(p, args, k + 1,
                                     [ns EXCEPT ![p.options[o].dest] =
                                                    p.options[o].const],
                                     seen \cup {o})

\* parser.parse_args(argv): the namespace starts from the defaults.
ParseArgs ==
    /\ pc = "add_bool_arg" /\ raised = ""
    /\ pc' = "parse_args"
    /\ LET r == ParseFrom(parser, argv, 1, parser.defaults, {})
       IN  /\ namespace' = r.namespace
           /\ raised' = r.raised
    /\ UNCHANGED <<JET_ASSIGNMENTS, pairingVars, objectVars, processVars,
                   driverVars, bool_arg, parser, argv, filesetVars,
                   flattenVars>>

(***************************************************************************)
(* run_utils.py: get_fileset.  The index is a function year -> sample ->   *)
(* subsample -> sequence of file paths.  The key f"{year}_{subsample}" is  *)
(* the tuple <<year, "_", subsample>>, a prefixed path the tuple           *)
(* <<redirector, path>>.                                                   *)
(***************************************************************************)
redirector == "root://cmsxrootd.fnal.gov//"

\* The sample list taken as the caller gave it.
SamplesAsGiven(processor, samples) == samples

\* if processor == "trigger_boosted": samples = ["Muon"]
ForcedSamples(processor, samples) ==
    IF processor = "trigger_boosted" THEN <<"Muon">> ELSE samples

\* A slice bound as Python clips it to a list of length n.
PyBound(i, n) ==
    IF i < 0 THEN (IF i + n < 0 THEN 0 ELSE i + n)
    ELSE IF i > n THEN n ELSE i

\* lst[lo:hi]
PySlice(lst, lo, hi) ==
    SubSeq(lst, PyBound(lo, Len(lst)) + 1, PyBound(hi, Len(lst)))

\* The slice with endi taken as the last position kept.
SliceFilesInclusive(fnames, starti, endi) ==
    IF endi < 0 THEN PySlice(fnames, starti, Len(fnames))
    ELSE PySlice(fnames, starti, endi + 1)

\* fnames = fnames[starti:] if endi < 0 else fnames[starti:endi]
SliceFiles(fnames, starti, endi) ==
    IF endi < 0 THEN PySlice(fnames, starti, Len(fnames))
    ELSE PySlice(fnames, starti, endi)

\* The subsamples kept as the plain intersection.
KeptSubsamplesIntersection(sample_set, subsamples) ==
    (DOMAIN sample_set) \cap Elems(subsamples)

\* get_subsamples = set(set_subsamples).intersection(subsamples), kept only
\* if len(get_subsamples); otherwise sample_set stays whole.
KeptSubsamples(sample_set, subsamples) ==
    LET get_subsamples == (DOMAIN sample_set) \cap Elems(subsamples)
    IN  IF get_subsamples # {} THEN get_subsamples ELSE DOMAIN sample_set

\* A merge in which the entries of a win.
DictMergeKeepFirst(a, b) ==
    [k \in (DOMAIN a) \cup (DOMAIN b) |-> IF k \in DOMAIN a THEN a[k] ELSE b[k]]

\* {**a, **b}: the entries of b win.
DictMerge(a, b) ==
    [k \in (DOMAIN a) \cup (DOMAIN b) |-> IF k \in DOMAIN b THEN b[k] ELSE a[k]]

\* One pass of the loop body for a sample that is in the index.
WithSample(acc, idx, a, sample) ==
    LET sample_set == idx[a.year][sample]
        kept == KeptSubsamples(sample_set, a.subsamples)
    IN  IF a.get_num_files
        THEN DictMerge(acc, [s \in {sample} |->
                                [sub \in kept |-> Len(sample_set[sub])]])
        ELSE DictMerge(acc,
                 [key \in {<<a.year, "_", sub>> : sub \in kept} |->
                     LET fnames == SliceFiles(sample_set[key[3]], a.starti,
                                              a.endi)
                     IN  [i \in DOMAIN fnames |-> <<redirector, fnames[i]>>]])

\* The lookup full_fileset_nano[year][sample] raises KeyError.
Missing(idx, y, sample) == y \notin DOMAIN idx \/ sample \notin DOMAIN idx[y]

\* The partial fileset returned where the lookup fails.
ReturnPartial(acc) == [raised |-> "", fileset |-> acc]

\* The exception leaves get_fileset: nothing is returned.
RaiseKeyError(acc) == [raised |-> "KeyError", fileset |-> <<>>]

\* for sample in samples, from the k-th sample on
RECURSIVE ResolveFrom(_, _, _, _, _)
ResolveFrom(idx, a, samples, k, acc) ==
    IF k > Len(samples) THEN [raised |-> "", fileset |-> acc]
    ELSE IF Missing(idx, a.year, samples[k]) THEN RaiseKeyError(acc)
    ELSE ResolveFrom(idx, a, samples, k + 1, WithSample(acc, idx, a, samples[k]))

\* get_fileset(processor, year, version, samples, subsamples, starti, endi,
\* get_num_files) on an index file that exists.
get_fileset(idx, a) ==
    ResolveFrom(idx, a, ForcedSamples(a.processor, a.samples), 1, <<>>)

GetFileset ==
    /\ pc = "start"
    /\ pc' = "get_fileset"
    /\ LET r == get_fileset(full_fileset_nano, fileset_args)
       IN  /\ fileset' = r.fileset
           /\ raised' = r.raised
    /\ UNCHANGED <<JET_ASSIGNMENTS, pairingVars, objectVars, processVars,
                   driverVars, argVars, full_fileset_nano, fileset_args,
                   flattenVars>>

(***************************************************************************)
(* run_utils.py: flatten_dict.  An array is a record of its shape and its  *)
(* data, a function of the 0-based index tuples of the shape.  A           *)
(* dictionary given to the function is the sequence of its <<key, array>>  *)
(* entries in insertion order; the one it returns is a function of the     *)
(* keys.                                                                   *)
(***************************************************************************)
DigitChars == <<"0", "1", "2", "3", "4", "5", "6", "7", "8", "9">>

\* str(obj) inside the f-string, for obj >= 0
RECURSIVE Str(_)
Str(n) ==
    IF n < 10 THEN <<DigitChars[n + 1]>>
    ELSE Str(n \div 10) \o <<DigitChars[(n % 10) + 1]>>

\* The index tuples of an array of a shape.
RECURSIVE Indices(_)
Indices(shape) ==
    IF shape = <<>> THEN {<<>>}
    ELSE {<<i>> \o t : i \in 0..(Head(shape) - 1), t \in Indices(Tail(shape))}

\* var[:, obj]
Column(var, obj) ==
    [shape |-> <<var.shape[1]>>,
     data |-> [ix \in Indices(<<var.shape[1]>>) |-> var.data[<<ix[1], obj>>]]]

\* The index into an array of a shape that an index into the squeezed array
\* stands for: 0 on every axis of length 1.
RECURSIVE Expand(_, _)
Expand(shape, ix) ==
    IF shape = <<>> THEN <<>>
    ELSE IF Head(shape) = 1 THEN <<0>> \o Expand(Tail(shape), ix)
    ELSE <<Head(ix)>> \o Expand(Tail(shape), Tail(ix))

\* np.squeeze(var): every axis of length 1 is removed.
Squeeze(var) ==
    LET shape == SelectSeq(var.shape, LAMBDA d : d # 1)
    IN  [shape |-> shape,
         data |-> [ix \in Indices(shape) |-> var.data[Expand(var.shape, ix)]]]

\* {f"{key}{obj}": var[:, obj] for obj in range(num_objects)}
TempDict(key, var) ==
    LET num_objects == var.shape[Len(var.shape)]
        keyOf == [obj \in 0..(num_objects - 1) |-> key \o Str(obj)]
    IN  [k \in {keyOf[obj] : obj \in DOMAIN keyOf} |->
            Column(var, CHOOSE obj \in DOMAIN keyOf : keyOf[obj] = k)]

\* One iteration of the loop of lines 143-149 on new_dict = acc.
FlattenEntry(acc, key, var) ==
    LET num_objects == var.shape[Len(var.shape)]
    IN  IF Len(var.shape) >= 2 /\ num_objects > 1
        THEN DictMerge(acc, TempDict(key, var))
        ELSE DictMerge(acc, [k \in {key} |-> Squeeze(var)])

\* The loop from the k-th entry; var.shape[-1] of an array of shape () is an
\* IndexError.
RECURSIVE FlattenFrom(_, _, _)
FlattenFrom(vd, k, acc) ==
    IF k > Len(vd) THEN [new_dict |-> acc, raised |-> ""]
    ELSE IF vd[k][2].shape = <<>> THEN [new_dict |-> <<>>, raised |-> "IndexError"]
    ELSE FlattenFrom(vd, k + 1, FlattenEntry(acc, vd[k][1], vd[k][2]))

flatten_dict(vd) == FlattenFrom(vd, 1, <<>>)

FlattenDict ==
    /\ pc = "start"
    /\ var_dict # <<>>
    /\ pc' = "flatten_dict"
    /\ LET r == flatten_dict(var_dict)
       IN  /\ new_dict' = r.new_dict
           /\ raised' = r.raised
    /\ UNCHANGED <<JET_ASSIGNMENTS, pairingVars, objectVars, processVars,
                   driverVars, argVars, filesetVars, var_dict>>

FlattenIdle ==
    /\ var_dict = <<>>
    /\ new_dict = <<>>

ArgsIdle ==
    /\ bool_arg = <<>>
    /\ parser = [options |-> <<>>, defaults |-> <<>>]
    /\ argv = <<>>
    /\ namespace = <<>>

FilesetIdle ==
    /\ full_fileset_nano = <<>>
    /\ fileset_args = <<>>
    /\ fileset = <<>>

\* No call into run_utils.py in progress.
RunUtilsIdle == ArgsIdle /\ FilesetIdle /\ FlattenIdle

(***************************************************************************)
(* Inputs of process.                                                      *)
(***************************************************************************)
MaxEvents == 2
MaxKeyLen == 2

GenWeightVals == {-2, 0, 3}

\* An event passes every cut, all but one, or none.
PassPatterns ==
    LET all == {CutNames[k] : k \in DOMAIN CutNames}
    IN  {all, {}} \cup {all \ {c} : c \in all}

SimEvents == [genWeight : GenWeightVals, pass : PassPatterns]
DataEvents == [genWeight : {0}, pass : PassPatterns]

KeyChars == {"/", "_", "a"}
PartitionKeys == UNION {[1..k -> KeyChars] : k \in 1..MaxKeyLen}

\* Cross sections (pb) by dataset: the table given to __init__.
XsecTables ==
    { <<>>, [d \in {<<"QCD">>, <<"HHTobbbb">>} |-> 2],
      [d \in {<<"QCD">>, <<"JetMET">>} |-> IF d = <<"QCD">> THEN 3 ELSE 5] }

ProcessIdle ==
    /\ XSECS = <<>>
    /\ chunks = <<>>
    /\ frame = <<>>
    /\ outparquet = <<>>

(***************************************************************************)
(* Inputs of the object selection.                                         *)
(***************************************************************************)
MaxLeptons == 2
MaxJets == 2
MaxFatJets == 1

\* Values on both sides of every threshold of a selection.
LeptonsFor(selection) ==
    [pt : {selection.pt - 1, selection.pt},
     eta : {-selection.eta - 1, -selection.eta, selection.eta,
            selection.eta + 1},
     miniPfRelIso_all : {selection.miniPFRelIso_all,
                         selection.miniPFRelIso_all + 1},
     is : [{selection.id} -> BOOLEAN]]

JetsFor(selection) ==
    [eta : {-selection.eta - 1, -selection.eta, 1 - selection.eta,
            selection.eta},
     is : [{selection.id} -> BOOLEAN],
     veto : BOOLEAN]

ScoreVals == {0, 1, 3}

FatJetsFor(selection) ==
    [eta : {-selection.eta, selection.eta - 1},
     is : [{selection.id} -> BOOLEAN],
     particleNetMD_Xbb : ScoreVals,
     particleNetMD_Xcc : ScoreVals,
     particleNetMD_Xqq : ScoreVals,
     particleNetMD_QCD : ScoreVals]

Years == {"2022", "2022EE", "2023"}

\* All sequences of at most n elements of S.
SeqsUpTo(S, n) == UNION {[1..k -> S] : k \in 0..n}

\* No object-selection call in progress: empty collections.
ObjectsIdle ==
    /\ muons = <<>>
    /\ electrons = <<>>
    /\ jets = <<>>
    /\ fatjets = <<>>
    /\ year = "2022"
    /\ isData = FALSE
    /\ selected = <<>>

PairingIdle ==
    /\ JET_ASSIGNMENTS = JetAssignmentsInit
    /\ dijet_M = [ij \in JetPairs |-> HIGGS_MASS]
    /\ dijet_pt = [ij \in JetPairs |-> 1]
    /\ com_pt = [a \in 1..3 |-> 1]
    /\ jetAssignmentDict = <<>>

InitLeptons ==
    /\ pc = "start"
    /\ DriverIdle
    /\ RunUtilsIdle
    /\ PairingIdle
    /\ ProcessIdle
    /\ muons \in SeqsUpTo(LeptonsFor(muon_selection), MaxLeptons)
    /\ electrons \in SeqsUpTo(LeptonsFor(electron_selection), MaxLeptons)
    /\ muons = <<>> \/ electrons = <<>>
    /\ jets = <<>>
    /\ fatjets = <<>>
    /\ year = "2022"
    /\ isData = FALSE
    /\ selected = <<>>

NextLeptons == GoodMuons \/ GoodElectrons

SpecLeptons == InitLeptons /\ [][NextLeptons]_vars

InitJets ==
    /\ pc = "start"
    /\ DriverIdle
    /\ RunUtilsIdle
    /\ PairingIdle
    /\ ProcessIdle
    /\ muons = <<>>
    /\ electrons = <<>>
    /\ jets \in SeqsUpTo(JetsFor(ak4_selection), MaxJets)
    /\ fatjets = <<>>
    /\ year \in Years
    /\ isData \in BOOLEAN
    /\ selected = <<>>

NextJets == GoodAk4Jets

SpecJets == InitJets /\ [][NextJets]_vars

InitFatJets ==
    /\ pc = "start"
    /\ DriverIdle
    /\ RunUtilsIdle
    /\ PairingIdle
    /\ ProcessIdle
    /\ muons = <<>>
    /\ electrons = <<>>
    /\ jets = <<>>
    /\ fatjets \in SeqsUpTo(FatJetsFor(ak8_selection), MaxFatJets)
    /\ year = "2022"
    /\ isData = FALSE
    /\ selected = <<>>

NextFatJets == GoodAk8Jets

SpecFatJets == InitFatJets /\ [][NextFatJets]_vars

\* One chunk of data, signal or other simulation.
InitProcess ==
    /\ pc = "start"
    /\ DriverIdle
    /\ RunUtilsIdle
    /\ PairingIdle
    /\ ObjectsIdle
    /\ XSECS \in XsecTables
    /\ \E ds \in {<<"2022", "QCD">>, <<"2022EE", "HHTobbbb">>,
                  <<"2022", "JetMET">>} :
       \E evs \in IF ds[2] = "JetMET"
                  THEN SeqsUpTo(DataEvents, MaxEvents)
                  ELSE SeqsUpTo(SimEvents, MaxEvents) :
            chunks = <<[dataset |-> ds, isData |-> ds[2] = "JetMET",
                        partition_key |-> <<"a", "/", "a">>, events |-> evs]>>
    /\ frame = <<(<<>>)>>
    /\ outparquet = <<>>

NextProcess == \E c \in DOMAIN chunks : Process(c)

SpecProcess == InitProcess /\ [][NextProcess]_vars

\* Two chunks of one simulated event each, with distinct partition keys,
\* processed in either order.
InitFiles ==
    /\ pc = "start"
    /\ DriverIdle
    /\ RunUtilsIdle
    /\ PairingIdle
    /\ ObjectsIdle
    /\ XSECS = <<>>
    /\ \E k1 \in PartitionKeys, k2 \in PartitionKeys :
          /\ k1 # k2
          /\ chunks =
               [c \in 1..2 |->
                  [dataset |-> <<"2022", "QCD">>, isData |-> FALSE,
                   partition_key |-> IF c = 1 THEN k1 ELSE k2,
                   events |-> <<[genWeight |-> c,
                                 pass |-> {CutNames[k] : k \in DOMAIN CutNames}]>>]]
    /\ frame = <<(<<>>), (<<>>)>>
    /\ outparquet = <<>>

SpecFiles == InitFiles /\ [][NextProcess]_vars

\* Dijet masses (GeV), dijet pTs and centre-of-mass pT sums an event can have.
MassVals == {95, 125, 160}
MaxComPt == 2
MaxDijetPt == 2

\* Two pT patterns over the six jet pairs: all equal, and growing with the
\* jet indices, so that the pT sort meets ties and both orders.
DijetPtPatterns ==
    { [ij \in JetPairs |-> 1],
      [ij \in JetPairs |-> IF ij[1] + ij[2] > nj - 1 THEN MaxDijetPt ELSE 1],
      [ij \in JetPairs |-> IF ij[1] + ij[2] < nj - 1 THEN MaxDijetPt ELSE 1] }

InitPairing ==
    /\ pc = "start"
    /\ DriverIdle
    /\ RunUtilsIdle
    /\ JET_ASSIGNMENTS = JetAssignmentsInit
    /\ dijet_M \in [JetPairs -> MassVals]
    /\ dijet_pt \in DijetPtPatterns
    /\ com_pt \in [1..3 -> 1..MaxComPt]
    /\ jetAssignmentDict = <<>>
    /\ ObjectsIdle
    /\ ProcessIdle

NextPairing == GetJetAssignmentVarsDhh \/ GetJetAssignmentVarsChi2

SpecPairing == InitPairing /\ [][NextPairing]_vars

\* getJetAssignmentVars and process on the same class: the lookup table is
\* shared by both.  Events of any dijet masses (equal pTs), and chunks of
\* data.
InitSkimmer ==
    \/ /\ InitPairing
       /\ dijet_pt = [ij \in JetPairs |-> 1]
       /\ com_pt = [a \in 1..3 |-> 1]
    \/ /\ pc = "start"
       /\ DriverIdle
       /\ RunUtilsIdle
       /\ PairingIdle
       /\ ObjectsIdle
       /\ XSECS = <<>>
       /\ \E evs \in SeqsUpTo(DataEvents, MaxEvents) :
              chunks = <<[dataset |-> <<"2022", "JetMET">>, isData |-> TRUE,
                          partition_key |-> <<"a", "/", "a">>, events |-> evs]>>
       /\ frame = <<(<<>>)>>
       /\ outparquet = <<>>

NextSkimmer == NextPairing \/ NextProcess

SpecSkimmer == InitSkimmer /\ [][NextSkimmer]_vars

(***************************************************************************)
(* Inputs of _get_bdt_scores.                                              *)
(***************************************************************************)
P_UNITS == 3
MaxRows == 2

\* All rows of n class probabilities that sum to one (P_UNITS units).
ProbRows(n) == {row \in [1..n -> 0..P_UNITS] : SumSeq(row) = P_UNITS}

SigKeyLists == {<<"hh4b">>, <<"hh4b", "vbfhh4b">>}
BgKeyLists == {<<"qcd">>, <<"qcd", "ttbar">>}

\* predict_proba has two columns for the binary classifier and one column
\* per training key for the multiclass one.
NumClasses(sig, bg, multi) == IF multi THEN Len(TrainingKeys(sig, bg)) ELSE 2

InitScores ==
    /\ pc = "start"
    /\ PairingIdle
    /\ ObjectsIdle
    /\ ProcessIdle
    /\ RunUtilsIdle
    /\ sig_keys \in SigKeyLists
    /\ bg_keys \in BgKeyLists
    /\ multiclass \in BOOLEAN
    /\ \E n \in 1..MaxRows :
           preds \in [1..n -> ProbRows(NumClasses(sig_keys, bg_keys, multiclass))]
    /\ bdt_scores = <<>>
    /\ WeightsIdle
    /\ MainIdle
    /\ raised = ""

NextScores == GetBdtScores

SpecScores == InitScores /\ [][NextScores]_vars

(***************************************************************************)
(* Inputs of preprocess_data.                                              *)
(***************************************************************************)
MaxSigRows == 2
MaxBgRows == 1

FinalWeightVals == {-2, 0, 3}

\* Non-empty samples of at most n rows.
Samples(n) == UNION {[1..k -> FinalWeightVals] : k \in 1..n}

\* The samples of one row.
OneRow == {<<w>> : w \in FinalWeightVals}

\* The first signal and the first background have up to MaxSigRows and
\* MaxBgRows rows, every further sample has one row.
InitWeights ==
    /\ pc = "start"
    /\ PairingIdle
    /\ ObjectsIdle
    /\ ProcessIdle
    /\ RunUtilsIdle
    /\ sig_keys \in SigKeyLists
    /\ bg_keys \in BgKeyLists
    /\ multiclass = TRUE
    /\ preds = <<>>
    /\ bdt_scores = <<>>
    /\ \E sw \in [Elems(sig_keys) -> Samples(MaxSigRows)],
          bw \in [Elems(bg_keys) -> Samples(MaxBgRows)] :
           /\ \A key \in Elems(sig_keys) \ {"hh4b"} : sw[key] \in OneRow
           /\ \A key \in Elems(bg_keys) \ {"qcd"} : bw[key] \in OneRow
           /\ events_dict = [key \in Elems(sig_keys) \cup Elems(bg_keys) |->
                                IF key \in Elems(sig_keys) THEN sw[key]
                                ELSE bw[key]]
    /\ equalize_weights \in BOOLEAN
    /\ run2_wapproach \in BOOLEAN
    /\ events = <<>>
    /\ data_split = <<>>
    /\ MainIdle
    /\ raised = ""

NextWeights == PreprocessData

SpecWeights == InitWeights /\ [][NextWeights]_vars

(***************************************************************************)
(* Inputs of main.                                                         *)
(***************************************************************************)
\* What an earlier run can have left in the model directory.
PriorModelDirs ==
    {[f \in F |-> "prior"] : F \in SUBSET {MODEL_FILE, EVALS_FILE}}

InitMain ==
    /\ pc = "main"
    /\ PairingIdle
    /\ ObjectsIdle
    /\ ProcessIdle
    /\ RunUtilsIdle
    /\ sig_keys \in SigKeyLists
    /\ bg_keys \in BgKeyLists
    /\ multiclass \in BOOLEAN
    /\ preds = <<>>
    /\ bdt_scores = <<>>
    /\ WeightsIdle
    /\ evaluate_only \in BOOLEAN
    /\ model_dir \in PriorModelDirs
    /\ model = [model |-> "none", evals_result |-> "none"]
    /\ calls = <<>>
    /\ year_argv = <<>>
    /\ args_year = YearDefault
    /\ apply_cuts = TRUE
    /\ samples_run3 =
           [y \in Elems(hh_vars_years) |->
               Restrict(SamplesAtImport(BaseKeySets[1]),
                        TrainingKeys(sig_keys, bg_keys))]
    /\ events_dict_years = <<>>
    /\ main_year = "2022EE"
    /\ main_events_dict = <<>>
    /\ raised = ""

NextMain ==
    \/ MainSaveEvents
    \/ MainLoadModel
    \/ MainLoadEvals
    \/ MainTrainModel
    \/ MainPlotLosses
    \/ MainPlotTrainTest
    \/ MainEvaluateModel
    \/ MainPlotAllYears

SpecMain == InitMain /\ [][NextMain]_vars

(***************************************************************************)
(* Inputs of add_bool_arg and parse_args.                                  *)
(***************************************************************************)
MaxNameLen == 3
MaxArgs == 2

\* Flag names: a letter followed by letters, hyphens and underscores.
FlagNames ==
    UNION {{n \in [1..k -> {"a", "-", "_"}] : n[1] = "a"} : k \in 1..MaxNameLen}

NoNames ==
    {[isNone |-> TRUE, value |-> <<>>]}
        \cup {[isNone |-> FALSE, value |-> n] : n \in FlagNames}

\* Command lines of the two flags and of the destination name used as a flag.
ArgvFor(b) ==
    SeqsUpTo({PosOption(b.name), NegOption(b.name, b.no_name),
              PosOption(VarName(b.name))}, MaxArgs)

InitArgs ==
    /\ pc = "start"
    /\ PairingIdle
    /\ ObjectsIdle
    /\ ProcessIdle
    /\ DriverIdle
    /\ FilesetIdle
    /\ FlattenIdle
    /\ bool_arg \in [name : FlagNames, default : BOOLEAN, no_name : NoNames]
    /\ parser = [options |-> <<>>, defaults |-> <<>>]
    /\ argv \in ArgvFor(bool_arg)
    /\ namespace = <<>>

NextArgs == AddBoolArg \/ ParseArgs

SpecArgs == InitArgs /\ [][NextArgs]_vars

(***************************************************************************)
(* Inputs of main's load stage.                                            *)
(***************************************************************************)
\* The command lines: no --year, one of the choices, or another word.
YearArgvs == {<<>>} \cup {<<y>> : y \in Elems(YearChoices) \cup {"2024"}}

InitLoad ==
    /\ pc = "start"
    /\ PairingIdle
    /\ ObjectsIdle
    /\ ProcessIdle
    /\ RunUtilsIdle
    /\ sig_keys \in SigKeyLists
    /\ bg_keys \in BgKeyLists
    /\ multiclass = TRUE
    /\ preds = <<>>
    /\ bdt_scores = <<>>
    /\ WeightsIdle
    /\ evaluate_only \in BOOLEAN
    /\ model_dir = [f \in {MODEL_FILE, EVALS_FILE} |-> "prior"]
    /\ model = [model |-> "none", evals_result |-> "none"]
    /\ calls = <<>>
    /\ year_argv \in YearArgvs
    /\ args_year = YearDefault
    /\ apply_cuts \in BOOLEAN
    /\ samples_run3 \in Catalogs
    /\ events_dict_years = <<>>
    /\ main_year = ""
    /\ main_events_dict = <<>>
    /\ raised = ""

NextLoad == MainParseArgs \/ MainLoad \/ MainPreprocessData \/ NextMain

SpecLoad == InitLoad /\ [][NextLoad]_vars

(***************************************************************************)
(* Inputs of get_fileset.                                                  *)
(***************************************************************************)
MaxFiles == 2
MaxSamples == 2

IndexSamples == {"QCD", "Muon"}
IndexSubsamples == {"x", "y"}

\* The files of a subsample: QCD subsamples have MaxFiles files, the others
\* one; a path names its sample, its subsample and its position.
FilesOf(sample, sub) ==
    [i \in 1..(IF sample = "QCD" THEN MaxFiles ELSE 1) |-> <<sample, sub, i>>]

\* Indexes of the year 2022 holding any of the samples, each with any
\* non-empty set of subsamples.
Indexes ==
    {[y \in {"2022"} |->
         [sample \in DOMAIN subs |-> [sub \in subs[sample] |-> FilesOf(sample, sub)]]] :
     subs \in UNION {[S -> (SUBSET IndexSubsamples) \ {{}}] :
                         S \in SUBSET IndexSamples}}

InitFileset ==
    /\ pc = "start"
    /\ PairingIdle
    /\ ObjectsIdle
    /\ ProcessIdle
    /\ DriverIdle
    /\ ArgsIdle
    /\ FlattenIdle
    /\ full_fileset_nano \in Indexes
    /\ fileset_args \in
           [processor : {"skimmer", "trigger_boosted"},
            year : {"2022", "2023"},
            samples : SeqsUpTo(IndexSamples, MaxSamples),
            subsamples : {<<>>, <<"x">>, <<"y">>, <<"x", "y">>},
            starti : 0..(MaxFiles + 1),
            endi : (-1)..(MaxFiles + 1),
            get_num_files : BOOLEAN]
    /\ fileset = <<>>

NextFileset == GetFileset

SpecFileset == InitFileset /\ [][NextFileset]_vars

(***************************************************************************)
(* Inputs of flatten_dict.                                                 *)
(***************************************************************************)
MaxN == 2
MaxObjects == 2
MaxVars == 2

\* Keys, one of them another one followed by a digit.
FlattenKeys == {<<"a">>, <<"a", "0">>, <<"b">>}

\* The shapes of arrays of up to two axes.
Shapes ==
    {<<>>} \cup {<<n>> : n \in 0..MaxN}
           \cup {<<n, k>> : n \in 0..MaxN, k \in 0..MaxObjects}

\* The array of a shape whose every element names the variable and the
\* position it sits at.
ArrayOf(key, shape) ==
    [shape |-> shape,
     data |-> [ix \in Indices(shape) |-> [var |-> key, at |-> ix]]]

\* Dictionaries of up to MaxVars variables with distinct keys.
VarDicts ==
    {[i \in DOMAIN ks |-> <<ks[i], ArrayOf(ks[i], shs[i])>>] :
        <<ks, shs>> \in
            UNION {{<<k, sh>> \in [1..n -> FlattenKeys] \X [1..n -> Shapes] :
                       \A i, j \in 1..n : i # j => k[i] # k[j]} :
                   n \in 1..MaxVars}}

InitFlatten ==
    /\ pc = "start"
    /\ PairingIdle
    /\ ObjectsIdle
    /\ ProcessIdle
    /\ DriverIdle
    /\ ArgsIdle
    /\ FilesetIdle
    /\ var_dict \in VarDicts
    /\ new_dict = <<>>

NextFlatten == FlattenDict

SpecFlatten == InitFlatten /\ [][NextFlatten]_vars

(***************************************************************************)
(* Properties.                                                             *)
(***************************************************************************)
\* The pairing whose two index pairs a result holds under the given keys.
ChosenPairing(key0, key1) ==
    CHOOSE a \in Pairings :
        /\ JET_ASSIGNMENTS[nj][a][1] = jetAssignmentDict[key0]
        /\ JET_ASSIGNMENTS[nj][a][2] = jetAssignmentDict[key1]

\* delta_d of a pairing written out from the dijet masses (scaled as above).
DeltaDOf(a) ==
    LET m1 == dijet_M[JET_ASSIGNMENTS[nj][a][1]]
        m2 == dijet_M[JET_ASSIGNMENTS[nj][a][2]]
        hi == IF m1 >= m2 THEN m1 ELSE m2
        lo == IF m1 >= m2 THEN m2 ELSE m1
    IN  Abs(K_DEN * hi - K_NUM * lo)

\* The two smallest delta_d values of the three pairings differ by less
\* than 30.
TwoSmallestTooClose ==
    \E a, b \in Pairings :
        /\ a # b
        /\ \A c \in Pairings \ {a, b} :
               DeltaDOf(c) >= DeltaDOf(a) /\ DeltaDOf(c) >= DeltaDOf(b)
        /\ LessThanTooClose(Abs(DeltaDOf(a) - DeltaDOf(b)))

\* C1: in the dhh method the chosen pairing has minimum delta_d, unless the
\* two smallest delta_d values differ by less than 30, in which case it has
\* the largest summed dijet pT in the centre-of-mass frame.
C1_DhhChoice ==
    pc = "dhh" =>
        LET a == ChosenPairing("ak4Pair0", "ak4Pair1")
        IN  IF TwoSmallestTooClose
            THEN \A b \in Pairings : com_pt[a] >= com_pt[b]
            ELSE \A b \in Pairings : DeltaDOf(a) <= DeltaDOf(b)

\* The effective counts of a cutflow never increase from one entry to the next.
NonIncreasing(cutflow) ==
    \A k \in 2..Len(cutflow) : cutflow[k].count <= cutflow[k - 1].count

Processed(c) == c \in DOMAIN frame /\ frame[c] # <<>>

CutflowNames(c) == [k \in DOMAIN frame[c].cutflow |-> frame[c].cutflow[k].name]

\* C2 as stated: for any simulated chunk, with generator weights of either
\* sign, the cutflow holds "all" and the five named cuts in order and its
\* count never increases from one entry to the next.
C2_CutflowMonotoneAnySign ==
    \A c \in DOMAIN chunks :
        (Processed(c) /\ ~chunks[c].isData) =>
            /\ CutflowNames(c) = <<"all">> \o CutNames
            /\ NonIncreasing(frame[c].cutflow)

NoNegativeWeight(c) ==
    \A e \in DOMAIN chunks[c].events : chunks[c].events[e].genWeight >= 0

\* C2 amended: for any simulated chunk whose generator weights are all
\* non-negative, the cutflow holds "all" and the five named cuts in order and
\* its count never increases from one entry to the next.
C2_CutflowMonotoneNonNegative ==
    \A c \in DOMAIN chunks :
        (Processed(c) /\ ~chunks[c].isData /\ NoNegativeWeight(c)) =>
            /\ CutflowNames(c) = <<"all">> \o CutNames
            /\ NonIncreasing(frame[c].cutflow)

\* A simulated chunk of non-negative weights whose cutflow drops strictly
\* at one of the first cuts and ends above zero.
C2_Witness ==
    \E c \in DOMAIN chunks :
        /\ Processed(c) /\ ~chunks[c].isData /\ NoNegativeWeight(c)
        /\ frame[c].cutflow[1].count > frame[c].cutflow[4].count
        /\ frame[c].cutflow[4].count = frame[c].cutflow[6].count
        /\ frame[c].cutflow[6].count > 0

PassesEveryCut(c, e) ==
    \A k \in DOMAIN frame[c].selection : frame[c].selection[k].mask[e]

\* C3: the mask applied to the output is the AND of all named masks
\* registered on the selection, every persisted column is restricted by it,
\* so the persisted rows are exactly the events passing every cut, in every
\* column, and all columns have the same number of rows.
C3_MaskIsAndOfCuts ==
    \A c \in DOMAIN chunks :
        Processed(c) =>
            LET f == frame[c]
                passing == {e \in DOMAIN chunks[c].events : PassesEveryCut(c, e)}
                table == outparquet[f.fname]
            IN  /\ Len(f.selection) = Len(CutNames)
                /\ \A k \in DOMAIN CutNames :
                       /\ f.selection[k].name = CutNames[k]
                       /\ \A e \in DOMAIN chunks[c].events :
                              f.selection[k].mask[e]
                                  <=> CutNames[k] \in chunks[c].events[e].pass
                /\ \A e \in DOMAIN chunks[c].events :
                       f.sel_all[e] <=> e \in passing
                /\ DOMAIN table = SkimKeys
                /\ \A key \in SkimKeys :
                       /\ Len(table[key]) = Cardinality(passing)
                       /\ key # "weight" =>
                              /\ {table[key][i][2] : i \in DOMAIN table[key]}
                                     = passing
                              /\ \A i, j \in DOMAIN table[key] :
                                     i < j => table[key][i][2] < table[key][j][2]

\* A processed chunk in which one event is kept and another fails one cut only.
C3_Witness ==
    \E c \in DOMAIN chunks :
        /\ Processed(c)
        /\ \E e1, e2 \in DOMAIN chunks[c].events :
              /\ frame[c].sel_all[e1]
              /\ ~frame[c].sel_all[e2]
              /\ Cardinality(chunks[c].events[e2].pass) = Len(CutNames) - 1
        /\ Len(outparquet[frame[c].fname]["ak4Pair0"]) = 1

\* C4: two chunk invocations with distinct partition keys, run in any order,
\* never write the same file name.
C4_DistinctFileNames ==
    \A c, d \in DOMAIN chunks :
        (/\ Processed(c) /\ Processed(d) /\ c # d
         /\ chunks[c].partition_key # chunks[d].partition_key)
            => frame[c].fname # frame[d].fname

\* The four conditions as the claim states them, with |eta|.
PassesAllFour(l, selection) ==
    /\ l.pt >= selection.pt
    /\ Abs(l.eta) <= selection.eta
    /\ l.miniPfRelIso_all <= selection.miniPFRelIso_all
    /\ l.is[selection.id]

\* C5: good_muons and good_electrons return exactly the objects with pT at
\* least the bound, |eta| at most the bound, mini-isolation at most the bound
\* and the identification flag true.
C5_LeptonsExact ==
    /\ pc = "good_muons" =>
           selected = Masked(muons, [i \in DOMAIN muons |->
                                        PassesAllFour(muons[i], muon_selection)])
    /\ pc = "good_electrons" =>
           selected = Masked(electrons, [i \in DOMAIN electrons |->
                                        PassesAllFour(electrons[i],
                                                      electron_selection)])

NoVetoApplies == ~(year = "2022" /\ isData)

\* C6 as stated: when no veto applies, good_ak4jets returns exactly the jets
\* with the Tight flag and |eta| <= 4.7.
C6_Ak4EtaInclusive ==
    (pc = "good_ak4jets" /\ NoVetoApplies) =>
        selected = Masked(jets, [i \in DOMAIN jets |->
                                    jets[i].is["Tight"] /\ Abs(jets[i].eta) <= 47])

\* C6 amended: when no veto applies, good_ak4jets returns a subset of the
\* input jets, and a jet is returned if and only if its Tight flag is true
\* and |eta| < 4.7; a jet with |eta| exactly 4.7 is not returned.
C6_Ak4EtaStrict ==
    (pc = "good_ak4jets" /\ NoVetoApplies) =>
        LET T == [i \in DOMAIN jets |->
                     jets[i].is["Tight"] /\ Abs(jets[i].eta) < 47]
        IN  /\ selected = Masked(jets, T)
            /\ \A i \in DOMAIN selected :
                   /\ \E k \in DOMAIN jets : jets[k] = selected[i]
                   /\ Abs(selected[i].eta) # 47

\* A Tight jet at |eta| = 4.7 is dropped while another jet is returned.
C6_Witness ==
    /\ pc = "good_ak4jets" /\ NoVetoApplies
    /\ \E k \in DOMAIN jets : jets[k].is["Tight"] /\ Abs(jets[k].eta) = 47
    /\ Len(selected) = 1
    /\ Len(jets) = 2

\* C7: good_ak4jets removes vetoed jets only when year = "2022" and isData;
\* for every other (year, isData) the result is the identification and eta
\* selection alone, whatever the veto map says.
C7_VetoOnly2022Data ==
    pc = "good_ak4jets" =>
        LET T == [i \in DOMAIN jets |-> Ak4Good(jets[i], ak4_selection)]
            V == [i \in DOMAIN jets |->
                     Ak4Good(jets[i], ak4_selection) /\ ~jets[i].veto]
        IN  IF year = "2022" /\ isData
            THEN selected = Masked(jets, V)
            ELSE selected = Masked(jets, T)

\* For 2022 simulation a jet inside the veto map is returned, and for 2022
\* data it would not be.
C7_Witness ==
    /\ pc = "good_ak4jets"
    /\ year = "2022" /\ ~isData
    /\ \E i \in DOMAIN selected : selected[i].veto

NonDegenerate(f) ==
    /\ f.particleNetMD_Xbb >= 0 /\ f.particleNetMD_Xcc >= 0
    /\ f.particleNetMD_Xqq >= 0 /\ f.particleNetMD_QCD >= 0
    /\ f.particleNetMD_Xbb + f.particleNetMD_QCD # 0
    /\ f.particleNetMD_Xbb + f.particleNetMD_Xcc + f.particleNetMD_Xqq
           + f.particleNetMD_QCD # 0

\* r = n / d as rationals, and r in [0, 1].
RatioIs(r, n, d) == r.den # 0 /\ r.num * d = n * r.den
InUnitInterval(r) ==
    \/ r.den > 0 /\ 0 <= r.num /\ r.num <= r.den
    \/ r.den < 0 /\ 0 >= r.num /\ r.num >= r.den

\* C8: for every fat jet with non-negative scores and non-zero denominators
\* good_ak8jets sets Txbb = Xbb / (Xbb + QCD) and
\* Txjj = (Xbb + Xcc + Xqq) / (Xbb + Xcc + Xqq + QCD), both in [0, 1].
C8_TaggerRatios ==
    pc = "good_ak8jets" =>
        \A i \in DOMAIN fatjets :
            LET f == fatjets[i]
                xjj == f.particleNetMD_Xbb + f.particleNetMD_Xcc
                           + f.particleNetMD_Xqq
            IN  NonDegenerate(f) =>
                    /\ RatioIs(f.Txbb, f.particleNetMD_Xbb,
                               f.particleNetMD_Xbb + f.particleNetMD_QCD)
                    /\ RatioIs(f.Txjj, xjj, xjj + f.particleNetMD_QCD)
                    /\ InUnitInterval(f.Txbb)
                    /\ InUnitInterval(f.Txjj)

\* A returned fat jet with Txbb = 3/4 and Txjj strictly between Txbb and 1.
C8_Witness ==
    /\ pc = "good_ak8jets"
    /\ \E i \in DOMAIN selected :
          /\ NonDegenerate(selected[i])
          /\ selected[i].Txbb = Ratio(3, 4)
          /\ selected[i].Txjj = Ratio(4, 5)

\* The table for 4 jets: 3 distinct pairings, each of two disjoint index
\* pairs that together cover {0, 1, 2, 3}.
TableWellFormed ==
    LET table == JET_ASSIGNMENTS[4]
    IN  /\ Len(table) = 3
        /\ \A a, b \in DOMAIN table :
               a # b =>
                   {{table[a][1][1], table[a][1][2]},
                    {table[a][2][1], table[a][2][2]}}
                 # {{table[b][1][1], table[b][1][2]},
                    {table[b][2][1], table[b][2][2]}}
        /\ \A a \in DOMAIN table :
               /\ Len(table[a]) = 2
               /\ {table[a][1][1], table[a][1][2]}
                      \cap {table[a][2][1], table[a][2][2]} = {}
               /\ {table[a][1][1], table[a][1][2]}
                      \cup {table[a][2][1], table[a][2][2]} = 0..3
               /\ table[a][1][1] # table[a][1][2]
               /\ table[a][2][1] # table[a][2][2]

\* C9: JET_ASSIGNMENTS for 4 jets holds exactly 3 distinct pairings, each of
\* two disjoint index pairs covering {0,1,2,3}, and neither process nor
\* getJetAssignmentVars ever modifies the table.
C9_TableIntact ==
    /\ []TableWellFormed
    /\ [][JET_ASSIGNMENTS' = JET_ASSIGNMENTS]_vars

\* process or getJetAssignmentVars has run and the table has its 3 pairings.
C9_Witness ==
    /\ pc \in {"dhh", "chi2", "process"}
    /\ Len(JET_ASSIGNMENTS[4]) = 3
    /\ JET_ASSIGNMENTS[4][3] = <<(<<0, 3>>), (<<1, 2>>)>>

\* sum over the two dijets of a pairing of (dijet mass - 125.0)^2
SumSqToHiggs(a) ==
    LET d1 == dijet_M[JET_ASSIGNMENTS[nj][a][1]] - 125
        d2 == dijet_M[JET_ASSIGNMENTS[nj][a][2]] - 125
    IN  d1 * d1 + d2 * d2

\* C10: in the chi2 method the returned pairing is one of the 3 pairings and
\* minimises the sum over its two dijets of (dijet mass - 125.0)^2, and the
\* result has only the keys ak4Pair0chi2 and ak4Pair1chi2.
C10_Chi2Minimiser ==
    pc = "chi2" =>
        /\ DOMAIN jetAssignmentDict = {"ak4Pair0chi2", "ak4Pair1chi2"}
        /\ \E a \in Pairings :
               /\ JET_ASSIGNMENTS[nj][a][1] = jetAssignmentDict["ak4Pair0chi2"]
               /\ JET_ASSIGNMENTS[nj][a][2] = jetAssignmentDict["ak4Pair1chi2"]
               /\ \A b \in Pairings : SumSqToHiggs(a) <= SumSqToHiggs(b)

\* The chi2 method returns the third pairing, which is the strict minimum.
C10_Witness ==
    /\ pc = "chi2"
    /\ jetAssignmentDict["ak4Pair0chi2"] = <<0, 3>>
    /\ \A b \in Pairings : b # 3 => SumSqToHiggs(3) < SumSqToHiggs(b)

\* C11: in the dhh output the dijet in slot 0 has transverse momentum greater
\* than or equal to the dijet in slot 1 (ak4DijetPt0 >= ak4DijetPt1), and the
\* two reported dijets are the two pairs of the chosen pairing.
C11_DijetPtOrder ==
    pc = "dhh" =>
        /\ jetAssignmentDict["ak4DijetPt0"] >= jetAssignmentDict["ak4DijetPt1"]
        /\ jetAssignmentDict["ak4DijetPt0"]
               = dijet_pt[jetAssignmentDict["ak4Dijet0"]]
        /\ jetAssignmentDict["ak4DijetPt1"]
               = dijet_pt[jetAssignmentDict["ak4Dijet1"]]
        /\ jetAssignmentDict["ak4DijetMass0"]
               = dijet_M[jetAssignmentDict["ak4Dijet0"]]
        /\ jetAssignmentDict["ak4DijetMass1"]
               = dijet_M[jetAssignmentDict["ak4Dijet1"]]
        /\ jetAssignmentDict["ak4Dijet0"] # jetAssignmentDict["ak4Dijet1"]
        /\ \E a \in Pairings :
               /\ jetAssignmentDict["ak4Pair0"] = JET_ASSIGNMENTS[nj][a][1]
               /\ jetAssignmentDict["ak4Pair1"] = JET_ASSIGNMENTS[nj][a][2]
               /\ {jetAssignmentDict["ak4Dijet0"], jetAssignmentDict["ak4Dijet1"]}
                      = {JET_ASSIGNMENTS[nj][a][1], JET_ASSIGNMENTS[nj][a][2]}

\* The second pair of the chosen pairing has the strictly higher dijet pT
\* and is reported in slot 0.
C11_Witness ==
    /\ pc = "dhh"
    /\ jetAssignmentDict["ak4DijetPt0"] > jetAssignmentDict["ak4DijetPt1"]
    /\ jetAssignmentDict["ak4Dijet0"] = jetAssignmentDict["ak4Pair1"]
    /\ jetAssignmentDict["ak4Dijet1"] = jetAssignmentDict["ak4Pair0"]

\* C12: _get_bdt_scores returns, in binary mode, column 1 of the prediction
\* matrix unchanged; in multiclass mode with one signal key, column 0
\* unchanged; in multiclass mode with k > 1 signal keys, for each signal
\* column s the value p_s / (p_s + sum of all columns with index >= k), which
\* lies in [0,1] for non-negative probabilities with a non-zero denominator.
C12_BdtScores ==
    pc = "_get_bdt_scores" =>
        /\ DOMAIN bdt_scores = DOMAIN preds
        /\ \A r \in DOMAIN preds :
               LET k == Len(sig_keys)
                   bsum == SumSeq([i \in 1..(Len(preds[r]) - k) |->
                                      preds[r][k + i]])
               IN  IF ~multiclass
                   THEN bdt_scores[r] = <<preds[r][2]>>
                   ELSE IF k = 1
                   THEN bdt_scores[r] = <<preds[r][1]>>
                   ELSE /\ DOMAIN bdt_scores[r] = 1..k
                        /\ \A s \in 1..k :
                               preds[r][s] + bsum # 0 =>
                                   /\ RatioIs(bdt_scores[r][s], preds[r][s],
                                              preds[r][s] + bsum)
                                   /\ InUnitInterval(bdt_scores[r][s])

\* Two signal keys, multiclass: an event with probabilities (1/3, 1/3, 1/3)
\* gets the score 1/2 for both signals, and the scores do not sum to one.
C12_Witness ==
    /\ pc = "_get_bdt_scores"
    /\ multiclass /\ Len(sig_keys) = 2 /\ Len(bg_keys) = 1
    /\ \E r \in DOMAIN preds :
          /\ preds[r] = <<1, 1, 1>>
          /\ bdt_scores[r] = <<Ratio(1, 2), Ratio(1, 2)>>

\* The summed weight of one sample in the "weight" column.
TotalWeight(key) == RatioSum(events[key])

EqualizedRun == pc = "preprocess_data" /\ equalize_weights

\* Every background row's weight is the absolute value of its finalWeight.
BackgroundsSignStripped ==
    \A key \in Elems(bg_keys) :
        /\ DOMAIN events[key] = DOMAIN events_dict[key]
        /\ \A i \in DOMAIN events_dict[key] :
               RatioIs(events[key][i], Abs(events_dict[key][i]), 1)

\* The total of the absolute finalWeights of all background rows.
TotalBackground ==
    SumSeq([k \in DOMAIN bg_keys |->
               SumSeq([i \in DOMAIN events_dict[bg_keys[k]] |->
                          Abs(events_dict[bg_keys[k]][i])])])

HasWeight(key) == \E i \in DOMAIN events_dict[key] : events_dict[key][i] # 0

\* C13 as stated: with equalize_weights on, after the weight step each
\* signal sample's total weight equals (total background weight) / (number
\* of signal samples), and every background row's weight equals the absolute
\* value of its original finalWeight.
C13_EqualizeAnySignal ==
    EqualizedRun =>
        /\ \A key \in Elems(sig_keys) :
               RatioIs(TotalWeight(key), TotalBackground, Len(sig_keys))
        /\ BackgroundsSignStripped

\* C13 amended: with equalize_weights on, after the weight step each signal
\* sample that has a row of non-zero finalWeight has total weight (total
\* background weight) / (number of signal samples), and every background
\* row's weight equals the absolute value of its original finalWeight.
C13_EqualizeNonZeroSignal ==
    EqualizedRun =>
        /\ \A key \in Elems(sig_keys) :
               HasWeight(key) =>
                   RatioIs(TotalWeight(key), TotalBackground, Len(sig_keys))
        /\ BackgroundsSignStripped

\* Two signals of different totals (one with a negative row) and two
\* backgrounds, one of negative weight: both signals end at 5/2.
C13_Witness ==
    /\ EqualizedRun
    /\ Len(sig_keys) = 2 /\ Len(bg_keys) = 2
    /\ events_dict["hh4b"] = <<3, -2>>
    /\ events_dict["vbfhh4b"] = <<3>>
    /\ events_dict["qcd"] = <<-2>>
    /\ events_dict["ttbar"] = <<3>>
    /\ RatioIs(TotalWeight("hh4b"), 5, 2)
    /\ RatioIs(TotalWeight("vbfhh4b"), 5, 2)
    /\ events["hh4b"][1] # events["hh4b"][2]

\* The names of the functions main has called, in order.
Called == [k \in DOMAIN calls |-> calls[k][1]]

HasCalled(name) == \E k \in DOMAIN Called : Called[k] = name

\* Every call of one of the later functions comes after a call of first.
CalledBefore(first, later) ==
    \A k \in DOMAIN Called :
        Called[k] \in later => \E j \in 1..(k - 1) : Called[j] = first

Evaluation == {"plot_train_test", "evaluate_model", "plot_allyears"}

\* C14: in evaluate-only mode the driver never runs train_model or
\* plot_losses and never writes trained_bdt.model or evals_result.txt; it
\* loads both from the model directory and fails if they are absent.  When
\* evaluate-only is off, the model and the evaluation log are written before
\* plot_train_test, evaluate_model and plot_allyears run.
C14_EvaluateOnly ==
    /\ evaluate_only =>
           /\ ~HasCalled("train_model") /\ ~HasCalled("plot_losses")
           /\ \A f \in {MODEL_FILE, EVALS_FILE} :
                  f \in DOMAIN model_dir => model_dir[f] = "prior"
           /\ (\E n \in Evaluation : HasCalled(n)) =>
                  /\ {MODEL_FILE, EVALS_FILE} \subseteq DOMAIN model_dir
                  /\ model = [model |-> "prior", evals_result |-> "prior"]
           /\ (pc \in {"load_model", "trained"}
                  /\ MODEL_FILE \notin DOMAIN model_dir) => raised # ""
           /\ (pc = "trained" /\ EVALS_FILE \notin DOMAIN model_dir) =>
                  raised # ""
           /\ raised # "" => ~(\E n \in Evaluation : HasCalled(n))
    /\ ~evaluate_only =>
           /\ CalledBefore("train_model", Evaluation)
           /\ (\E n \in Evaluation : HasCalled(n)) =>
                  /\ {MODEL_FILE, EVALS_FILE} \subseteq DOMAIN model_dir
                  /\ model_dir[MODEL_FILE] = "run"
                  /\ model_dir[EVALS_FILE] = "run"
                  /\ model = [model |-> "run", evals_result |-> "run"]

\* An evaluate-only run over a directory holding both files has made all
\* three evaluation calls and nothing else.
C14_Witness ==
    /\ evaluate_only
    /\ pc = "plot_allyears"
    /\ Called = <<"plot_train_test", "evaluate_model", "plot_allyears">>
    /\ model_dir[MODEL_FILE] = "prior"

\* The flag name with every hyphen replaced by an underscore.
HyphensToUnderscores(name) ==
    [i \in DOMAIN name |-> IF name[i] = "-" THEN "_" ELSE name[i]]

\* C15: for any flag name, parsing --<name> sets the destination variable to
\* true, parsing --no-<name> (or the supplied no_name) sets it to false,
\* parsing neither leaves the configured default, and the destination
\* variable name is the flag name with every hyphen replaced by an
\* underscore.
C15_BoolArgRoundTrip ==
    LET name == bool_arg.name
        dest == HyphensToUnderscores(name)
        no == IF bool_arg.no_name.isNone THEN <<"n", "o", "-">> \o name
              ELSE bool_arg.no_name.value
    IN  /\ (pc = "add_bool_arg" /\ raised = "") =>
               /\ DOMAIN parser.defaults = {dest}
               /\ parser.defaults[dest] = bool_arg.default
               /\ DOMAIN parser.options = {<<"-", "-">> \o name,
                                           <<"-", "-">> \o no}
               /\ \A o \in DOMAIN parser.options :
                      parser.options[o].dest = dest
        /\ pc = "parse_args" =>
               /\ argv = <<(<<"-", "-">> \o name)>> =>
                      raised = "" /\ namespace = [d \in {dest} |-> TRUE]
               /\ argv = <<(<<"-", "-">> \o no)>> =>
                      raised = "" /\ namespace = [d \in {dest} |-> FALSE]
               /\ argv = <<>> =>
                      /\ raised = ""
                      /\ namespace = [d \in {dest} |-> bool_arg.default]

\* The flag a-a with default true: --no-a-a was parsed and the destination
\* a_a is false.
C15_Witness ==
    /\ pc = "parse_args" /\ raised = ""
    /\ bool_arg.name = <<"a", "-", "a">>
    /\ bool_arg.default = TRUE
    /\ argv = <<(<<"-", "-", "n", "o", "-", "a", "-", "a">>)>>
    /\ namespace = [d \in {<<"a", "_", "a">>} |-> FALSE]

\* The arguments and the index of the get_fileset call.
Resolved == ForcedSamples(fileset_args.processor, fileset_args.samples)

Returned == pc = "get_fileset" /\ raised = ""

Available(sample) == DOMAIN full_fileset_nano[fileset_args.year][sample]

Requested == {fileset_args.subsamples[i] : i \in DOMAIN fileset_args.subsamples}

\* The subsamples of a sample that the call retains.
Retained(sample) ==
    IF Available(sample) \cap Requested # {}
    THEN Available(sample) \cap Requested
    ELSE Available(sample)

KeyOf(sub) == <<fileset_args.year, "_", sub>>

\* The paths of a subsample at the 0-based positions [starti, endi), or from
\* starti to the end when endi < 0, in index order, each with the redirector.
ExpectedPaths(sample, sub) ==
    LET fnames == full_fileset_nano[fileset_args.year][sample][sub]
        last == IF fileset_args.endi < 0 \/ fileset_args.endi > Len(fnames)
                THEN Len(fnames) ELSE fileset_args.endi
        n == IF last > fileset_args.starti THEN last - fileset_args.starti
             ELSE 0
    IN  [i \in 1..n |->
            <<"root://cmsxrootd.fnal.gov//", fnames[fileset_args.starti + i]>>]

ExpectedKeys ==
    {KeyOf(sub) : sub \in UNION {Retained(Resolved[k]) : k \in DOMAIN Resolved}}

\* C16 as stated: with get_num_files false the result has, for every
\* requested sample and every retained subsample of it, the key
\* "<year>_<subsample>" mapped to that subsample's file paths in index
\* order, each with the redirector prefix, and no other keys.
C16_FlatFilesetEverySample ==
    (Returned /\ ~fileset_args.get_num_files) =>
        /\ DOMAIN fileset = ExpectedKeys
        /\ \A k \in DOMAIN Resolved :
               \A sub \in Retained(Resolved[k]) :
                   fileset[KeyOf(sub)] = ExpectedPaths(Resolved[k], sub)

\* C16 amended: with get_num_files false the result has exactly the keys
\* "<year>_<subsample>" of the retained subsamples of the requested samples;
\* a key whose subsample name is retained by one requested sample only maps
\* to that subsample's file paths in index order, each with the redirector
\* prefix, and a name retained by several requested samples maps to the
\* paths of the last of them in the sample list.
C16_FlatFilesetLastSample ==
    (Returned /\ ~fileset_args.get_num_files) =>
        /\ DOMAIN fileset = ExpectedKeys
        /\ \A k \in DOMAIN Resolved :
               \A sub \in Retained(Resolved[k]) :
                   (\A j \in DOMAIN Resolved :
                        j > k => sub \notin Retained(Resolved[j]))
                       => fileset[KeyOf(sub)] = ExpectedPaths(Resolved[k], sub)

\* Two samples without a common subsample name, every file of both returned.
C16_Witness ==
    /\ Returned /\ ~fileset_args.get_num_files
    /\ fileset_args.samples = <<"QCD", "Muon">>
    /\ fileset_args.processor = "skimmer"
    /\ Retained("QCD") = {"x"} /\ Retained("Muon") = {"y"}
    /\ fileset[<<"2022", "_", "x">>]
           = <<(<<"root://cmsxrootd.fnal.gov//", <<"QCD", "x", 1>> >>),
               (<<"root://cmsxrootd.fnal.gov//", <<"QCD", "x", 2>> >>)>>
    /\ fileset[<<"2022", "_", "y">>]
           = <<(<<"root://cmsxrootd.fnal.gov//", <<"Muon", "y", 1>> >>)>>

\* C17: when processor is "trigger_boosted", get_fileset ignores the
\* caller's samples argument and resolves exactly the sample list ["Muon"],
\* for every value of samples.
C17_TriggerBoostedMuon ==
    (pc = "get_fileset" /\ fileset_args.processor = "trigger_boosted") =>
        LET y == fileset_args.year
        IN  IF y \notin DOMAIN full_fileset_nano
               \/ "Muon" \notin DOMAIN full_fileset_nano[y]
            THEN raised = "KeyError"
            ELSE /\ raised = ""
                 /\ IF fileset_args.get_num_files
                    THEN /\ DOMAIN fileset = {"Muon"}
                         /\ DOMAIN fileset["Muon"] = Retained("Muon")
                    ELSE /\ DOMAIN fileset = {KeyOf(sub) : sub \in Retained("Muon")}
                         /\ \A sub \in Retained("Muon") :
                                fileset[KeyOf(sub)] = ExpectedPaths("Muon", sub)

\* trigger_boosted called for QCD alone, on an index that has both samples:
\* the result is the Muon entry.
C17_Witness ==
    /\ Returned
    /\ fileset_args.processor = "trigger_boosted"
    /\ fileset_args.samples = <<"QCD">>
    /\ fileset_args.get_num_files
    /\ "QCD" \in DOMAIN full_fileset_nano["2022"]
    /\ DOMAIN fileset = {"Muon"}

\* The subsamples returned for a sample, read off the per-sample result.
ReturnedSubsamples(sample) == DOMAIN fileset[sample]

\* C18 as stated: when subsamples is non-empty the subsamples returned for
\* each sample are exactly the requested ones that the sample has (a sample
\* with none of them contributes nothing); when it is empty, all available
\* subsamples are returned.
C18_SubsamplesIntersection ==
    (Returned /\ fileset_args.get_num_files) =>
        \A k \in DOMAIN Resolved :
            ReturnedSubsamples(Resolved[k]) =
                IF Requested # {}
                THEN Available(Resolved[k]) \cap Requested
                ELSE Available(Resolved[k])

\* C18 amended: the subsamples returned for a sample are exactly the
\* requested ones that the sample has when there is at least one; a sample
\* with none of the requested subsamples, like every sample when subsamples
\* is empty, returns all its available subsamples.
C18_SubsamplesIntersectionOrAll ==
    /\ (Returned /\ fileset_args.get_num_files) =>
           \A k \in DOMAIN Resolved :
               ReturnedSubsamples(Resolved[k]) =
                   IF Available(Resolved[k]) \cap Requested # {}
                   THEN Available(Resolved[k]) \cap Requested
                   ELSE Available(Resolved[k])
    /\ (Returned /\ ~fileset_args.get_num_files) =>
           DOMAIN fileset =
               {KeyOf(sub) :
                    sub \in UNION {IF Available(Resolved[k]) \cap Requested # {}
                                   THEN Available(Resolved[k]) \cap Requested
                                   ELSE Available(Resolved[k]) :
                                   k \in DOMAIN Resolved}}

\* Subsample x requested: QCD, which has x and y, returns x alone, and Muon,
\* which has only y, returns y.
C18_Witness ==
    /\ Returned /\ fileset_args.get_num_files
    /\ fileset_args.subsamples = <<"x">>
    /\ DOMAIN fileset = {"QCD", "Muon"}
    /\ Available("QCD") = {"x", "y"} /\ DOMAIN fileset["QCD"] = {"x"}
    /\ Available("Muon") = {"y"} /\ DOMAIN fileset["Muon"] = {"y"}

\* C19: each subsample's file list is restricted to the positions
\* [starti, endi) of the index list, and when endi < 0 to the positions from
\* starti to the end of the list; with the defaults starti = 0, endi = -1
\* every file is returned.
C19_FileSlice ==
    (Returned /\ ~fileset_args.get_num_files) =>
        \A key \in DOMAIN fileset :
            \E k \in DOMAIN Resolved :
                /\ key[3] \in Retained(Resolved[k])
                /\ LET fnames ==
                           full_fileset_nano[fileset_args.year][Resolved[k]][key[3]]
                       kept == {p \in 0..(Len(fnames) - 1) :
                                   /\ p >= fileset_args.starti
                                   /\ fileset_args.endi < 0
                                          \/ p < fileset_args.endi}
                   IN  /\ Len(fileset[key]) = Cardinality(kept)
                       /\ \A i \in DOMAIN fileset[key] :
                              /\ fileset_args.starti + i - 1 \in kept
                              /\ fileset[key][i][2]
                                     = fnames[fileset_args.starti + i]
                       /\ (fileset_args.starti = 0 /\ fileset_args.endi = -1)
                              => Len(fileset[key]) = Len(fnames)

\* starti = 1, endi = 2 on a list of two files keeps the second file alone.
C19_Witness ==
    /\ Returned /\ ~fileset_args.get_num_files
    /\ fileset_args.starti = 1 /\ fileset_args.endi = 2
    /\ fileset_args.samples = <<"QCD">>
    /\ \E key \in DOMAIN fileset :
          /\ Len(fileset[key]) = 1
          /\ fileset[key][1][2] = <<"QCD", key[3], 2>>

\* A sample that the call resolves is not in the index under the year.
SomeSampleMissing ==
    \E k \in DOMAIN Resolved :
        \/ fileset_args.year \notin DOMAIN full_fileset_nano
        \/ Resolved[k] \notin DOMAIN full_fileset_nano[fileset_args.year]

Failed == raised # "" /\ fileset = <<>>

Flattened == pc = "flatten_dict" /\ raised = ""

\* The one-axis array of the elements of column obj of variable i.
ColumnOf(i, obj) ==
    LET key == var_dict[i][1]
        N == var_dict[i][2].shape[1]
    IN  [shape |-> <<N>>,
         data |-> [ix \in Indices(<<N>>) |->
                      [var |-> key, at |-> <<ix[1], obj>>]]]

C21_FlattenDict ==
    Flattened =>
        \A i \in DOMAIN var_dict :
            LET key == var_dict[i][1]
                shape == var_dict[i][2].shape
            IN  /\ (Len(shape) = 2 /\ shape[2] > 1) =>
                       /\ \A obj \in 0..(shape[2] - 1) :
                              /\ key \o Str(obj) \in DOMAIN new_dict
                              /\ new_dict[key \o Str(obj)] = ColumnOf(i, obj)
                       /\ key \notin DOMAIN new_dict
                /\ (Len(shape) = 2 /\ shape[2] = 1) =>
                       /\ key \in DOMAIN new_dict
                       /\ new_dict[key] = ColumnOf(i, 0)

(***************************************************************************)
(* C22.  With one configured year given by --year, and with the default    *)
(* ["2022EE"], main loads the event tables of exactly that year, restricts *)
(* that year's catalog to the signal and background keys and uses the      *)
(* year's name for the inferences/<year> directory.                        *)
(***************************************************************************)
\* The single year the command line asks for, if it asks for one.
SingleYearAsked ==
    IF year_argv = <<>> THEN {"2022EE"}
    ELSE {y \in Elems(hh_vars_years) : year_argv = <<y>>}

LoadStageDone ==
    pc \notin {"start", "parse_args"}

C22_SingleYearLoaded ==
    \A y \in SingleYearAsked :
        LoadStageDone =>
            /\ pc = "load" => raised = ""
            /\ DOMAIN events_dict_years = {y}
            /\ \A key \in DOMAIN events_dict_years[y] :
                   events_dict_years[y][key].years = {y}
            /\ DOMAIN samples_run3[y]
                   \subseteq Elems(TrainingKeys(sig_keys, bg_keys))
            /\ main_year = y
            /\ pc = "np.save" =>
                   \A key \in Elems(TrainingKeys(sig_keys, bg_keys)) :
                       <<"inferences", y, key>> \in DOMAIN model_dir

(***************************************************************************)
(* C23.  For every combination of equalize_weights and run2_wapproach the  *)
(* table preprocess_data splits has a weight value for every row, and the  *)
(* returned X_train and X_test do not contain the weight column.           *)
(***************************************************************************)
Preprocessed == pc = "preprocess_data"

\* The "weight" column of the split table has an entry for every row.
WeightForEveryRow ==
    \A key \in Elems(TrainingKeys(sig_keys, bg_keys)) :
        /\ key \in DOMAIN events
        /\ DOMAIN events[key] = DOMAIN events_dict[key]

C23_WeightForEveryRow ==
    Preprocessed =>
        /\ WeightForEveryRow
        /\ raised = "" =>
               /\ "weight" \notin data_split.X_train.columns
               /\ "weight" \notin data_split.X_test.columns

(***************************************************************************)
(* C24.  With run2_wapproach on and equalize_weights off, after the weight *)
(* step every background row's weight is its absolute finalWeight divided  *)
(* by the smallest absolute background weight (so the smallest background  *)
(* weight is exactly 1), and each signal sample's weights are divided by   *)
(* that signal's own smallest absolute weight.                             *)
(***************************************************************************)
Run2Run == pc = "preprocess_data" /\ run2_wapproach /\ ~equalize_weights

\* The absolute finalWeights of the rows of the samples of keys.
AbsWeights(keys) ==
    {Abs(events_dict[key][i]) : <<key, i>> \in
        UNION {{key} \X DOMAIN events_dict[key] : key \in keys}}

\* The smallest of a non-empty set of numbers.
Smallest(S) == CHOOSE x \in S : \A y \in S : x <= y

\* Every row of the sample is its absolute finalWeight divided by d.
DividedBy(key, d) ==
    /\ DOMAIN events[key] = DOMAIN events_dict[key]
    /\ \A i \in DOMAIN events_dict[key] :
           RatioIs(events[key][i], Abs(events_dict[key][i]), d)

\* Some background row has weight 1 and none has a smaller one.
SmallestBackgroundIsOne ==
    /\ \E key \in Elems(bg_keys) : \E i \in DOMAIN events[key] :
           RatioIs(events[key][i], 1, 1)
    /\ \A key \in Elems(bg_keys) : \A i \in DOMAIN events[key] :
           /\ events[key][i].den > 0
           /\ events[key][i].num >= events[key][i].den

\* C24 as stated, for any weights.
C24_Run2AnyWeights ==
    Run2Run =>
        /\ \A key \in Elems(bg_keys) :
               DividedBy(key, Smallest(AbsWeights(Elems(bg_keys))))
        /\ SmallestBackgroundIsOne
        /\ \A key \in Elems(sig_keys) :
               DividedBy(key, Smallest(AbsWeights({key})))

\* C24 amended: the background part holds when no background row has
\* finalWeight 0, the part of a signal when none of its rows has.
C24_Run2NonZeroWeights ==
    Run2Run =>
        /\ Smallest(AbsWeights(Elems(bg_keys))) # 0 =>
               /\ \A key \in Elems(bg_keys) :
                      DividedBy(key, Smallest(AbsWeights(Elems(bg_keys))))
               /\ SmallestBackgroundIsOne
        /\ \A key \in Elems(sig_keys) :
               Smallest(AbsWeights({key})) # 0 =>
                   DividedBy(key, Smallest(AbsWeights({key})))

\* Two backgrounds of weights -2 and 3 become 1 and 3/2; a signal of rows
\* 3 and -2 becomes 3/2 and 1.
C24_Witness ==
    /\ Run2Run
    /\ sig_keys = <<"hh4b">> /\ bg_keys = <<"qcd", "ttbar">>
    /\ events_dict["hh4b"] = <<3, -2>>
    /\ events_dict["qcd"] = <<-2>>
    /\ events_dict["ttbar"] = <<3>>
    /\ RatioIs(events["qcd"][1], 1, 1)
    /\ RatioIs(events["ttbar"][1], 3, 2)
    /\ RatioIs(events["hh4b"][1], 3, 2)
    /\ RatioIs(events["hh4b"][2], 1, 1)

(***************************************************************************)
(* C25.  With run2_wapproach and equalize_weights both on, the weights     *)
(* preprocess_data assigns to every training row are those it assigns     *)
(* with equalize_weights alone: the equalize step overwrites every weight  *)
(* written by the run2 step.                                               *)
(***************************************************************************)
BothRun == pc = "preprocess_data" /\ run2_wapproach /\ equalize_weights

\* The "weight" column of a run on the same tables with equalize_weights
\* alone.
EqualizeAlone ==
    WeightColumnBdt(events_dict, sig_keys, bg_keys, TRUE, FALSE)

\* The weight the returned partitions give a row of the split table.
ReturnedWeights ==
    [row \in Elems(data_split.X_train.index) \cup Elems(data_split.X_test.index)
        |-> IF row \in Elems(data_split.X_train.index)
            THEN data_split.weights_train[
                     CHOOSE r \in DOMAIN data_split.X_train.index :
                         data_split.X_train.index[r] = row]
            ELSE data_split.weights_test[
                     CHOOSE r \in DOMAIN data_split.X_test.index :
                         data_split.X_test.index[r] = row]]

C25_EqualizeOverwritesRun2 ==
    BothRun =>
        /\ raised = ""
        /\ events = EqualizeAlone
        /\ DOMAIN ReturnedWeights =
               UNION {{key} \X DOMAIN events_dict[key] :
                          key \in Elems(TrainingKeys(sig_keys, bg_keys))}
        /\ \A row \in DOMAIN ReturnedWeights :
               ReturnedWeights[row] = EqualizeAlone[row[1]][row[2]]

\* Both flags on for tables on which the run2 step alone gives the first
\* signal row 3/2 and the equalize step 3.
C25_Witness ==
    /\ BothRun
    /\ sig_keys = <<"hh4b">> /\ bg_keys = <<"qcd", "ttbar">>
    /\ events_dict["hh4b"] = <<3, -2>>
    /\ events_dict["qcd"] = <<-2>>
    /\ events_dict["ttbar"] = <<3>>
    /\ RatioIs(Run2Weights(events_dict, sig_keys, bg_keys)["hh4b"][1], 3, 2)
    /\ RatioIs(events["hh4b"][1], 3, 1)
    /\ RatioIs(events["qcd"][1], 2, 1)

(***************************************************************************)
(* C26.  In process a chunk whose dataset name contains "HHTobbbb" uses    *)
(* generator weights that are each the sign (-1, 0 or +1) of the raw       *)
(* generator weight, any other simulated chunk the raw generator weights;  *)
(* n_events and cutflow['all'] are the sum of the weights used for         *)
(* simulation and the number of events for data, and the nevents of the    *)
(* returned accumulator equals cutflow['all'].                             *)
(***************************************************************************)
\* The dataset name of the chunk contains "HHTobbbb".
NameHasHHTobbbb(c) ==
    \E i \in 2..Len(chunks[c].dataset) : chunks[c].dataset[i] = "HHTobbbb"

\* The sign of x is sg.
IsSignOf(sg, x) ==
    /\ sg \in {-1, 0, 1}
    /\ (x > 0 <=> sg = 1)
    /\ (x < 0 <=> sg = -1)

\* The sum of the first k weights.
RECURSIVE SumOfFirst(_, _)
SumOfFirst(w, k) == IF k = 0 THEN 0 ELSE SumOfFirst(w, k - 1) + w[k]

CutflowAll(c) == frame[c].cutflow[1].count

C26_GenWeightsAndNEvents ==
    \A c \in DOMAIN chunks :
        Processed(c) =>
            LET f == frame[c]
                evs == chunks[c].events
            IN  /\ f.cutflow[1].name = "all"
                /\ f.n_events = CutflowAll(c)
                /\ f.return.nevents = CutflowAll(c)
                /\ chunks[c].isData => CutflowAll(c) = Len(evs)
                /\ ~chunks[c].isData =>
                       /\ DOMAIN f.gen_weights = DOMAIN evs
                       /\ CutflowAll(c) = SumOfFirst(f.gen_weights, Len(evs))
                       /\ \A e \in DOMAIN evs :
                              IF NameHasHHTobbbb(c)
                              THEN IsSignOf(f.gen_weights[e], evs[e].genWeight)
                              ELSE f.gen_weights[e] = evs[e].genWeight

\* A signal chunk of raw weights -2 and 3 counts 0 events; the weights used
\* are -1 and 1.
C26_Witness ==
    \E c \in DOMAIN chunks :
        /\ Processed(c)
        /\ NameHasHHTobbbb(c)
        /\ Len(chunks[c].events) = 2
        /\ chunks[c].events[1].genWeight = -2
        /\ chunks[c].events[2].genWeight = 3
        /\ frame[c].gen_weights = <<-1, 1>>
        /\ CutflowAll(c) = 0

(***************************************************************************)
(* C27.  In process a dataset missing from the cross-section table does    *)
(* not abort the chunk: the normalisation factor is 1, a warning is logged *)
(* and processing completes; a dataset in the table gets the factor        *)
(* xsec * LUMI[year]; every data event gets weight exactly 1 whether or    *)
(* not the dataset is in the table.                                        *)
(***************************************************************************)
\* The chunk's dataset, after the year, is a key of the table.
InXsecTable(c) == Tail(chunks[c].dataset) \in DOMAIN XSECS

\* process has written the chunk's table and returned its accumulator.
Completed(c) ==
    /\ frame[c].fname \in DOMAIN outparquet
    /\ frame[c].return.dataset = Tail(chunks[c].dataset)
    /\ frame[c].return.year = Head(chunks[c].dataset)

\* The rows of the "weight" column are those of the selected events, each
\* the generator weight used times the factor (1 for a data event).
WeightsAre(c, factor) ==
    LET f == frame[c]
        kept == Masked([e \in DOMAIN chunks[c].events |-> e], f.sel_all)
    IN  /\ Len(f.skimmed_events["weight"]) = Len(kept)
        /\ \A r \in DOMAIN kept :
               f.skimmed_events["weight"][r] =
                   IF chunks[c].isData THEN 1
                   ELSE f.gen_weights[kept[r]] * factor

C27_XsecNormalisation ==
    \A c \in DOMAIN chunks :
        Processed(c) =>
            /\ Completed(c)
            /\ ~InXsecTable(c) =>
                   /\ frame[c].weight_norm = 1
                   /\ frame[c].warnings # <<>>
                   /\ WeightsAre(c, 1)
            /\ InXsecTable(c) =>
                   /\ frame[c].weight_norm =
                          XSECS[Tail(chunks[c].dataset)]
                              * LUMI(Head(chunks[c].dataset))
                   /\ WeightsAre(c, XSECS[Tail(chunks[c].dataset)]
                                        * LUMI(Head(chunks[c].dataset)))

\* A simulated chunk without cross section whose one event is kept with its
\* weight; further cases are one with cross section whose event is scaled,
\* and a data chunk in the table whose event has weight 1.
C27_Witness ==
    \E c \in DOMAIN chunks :
        /\ Processed(c) /\ ~InXsecTable(c) /\ ~chunks[c].isData
        /\ frame[c].skimmed_events["weight"] = <<3>>

C27_WitnessPresent ==
    \E c \in DOMAIN chunks :
        /\ Processed(c) /\ InXsecTable(c) /\ ~chunks[c].isData
        /\ chunks[c].dataset = <<"2022", "QCD">>
        /\ XSECS[<<"QCD">>] = 3
        /\ frame[c].skimmed_events["weight"] = <<72>>

C27_WitnessData ==
    \E c \in DOMAIN chunks :
        /\ Processed(c) /\ InXsecTable(c) /\ chunks[c].isData
        /\ frame[c].skimmed_events["weight"] = <<1>>

(***************************************************************************)
(* C28.  The dhh columns ak4Pair0 and ak4Pair1 hold the chosen pairing's   *)
(* two index pairs in lookup-table order, as before the sort by dijet pT;  *)
(* in an event where the second pair has the higher dijet pT the           *)
(* kinematics in ak4DijetPt0/Mass0 (and Eta0, Phi0) are those of the jets  *)
(* indexed by ak4Pair1, not ak4Pair0.                                      *)
(***************************************************************************)
\* The position of the pairing in the lookup table whose pairs, in the
\* table's order, are the two columns.
TableOrder ==
    \E a \in Pairings :
        /\ jetAssignmentDict["ak4Pair0"] = JET_ASSIGNMENTS[nj][a][1]
        /\ jetAssignmentDict["ak4Pair1"] = JET_ASSIGNMENTS[nj][a][2]

SecondPairHigher ==
    dijet_pt[jetAssignmentDict["ak4Pair1"]]
        > dijet_pt[jetAssignmentDict["ak4Pair0"]]

C28_PairsInTableOrder ==
    pc = "dhh" =>
        /\ TableOrder
        /\ jetAssignmentDict["ak4Pair0"][1] = 0
        /\ SecondPairHigher =>
               /\ jetAssignmentDict["ak4Dijet0"] = jetAssignmentDict["ak4Pair1"]
               /\ jetAssignmentDict["ak4DijetPt0"]
                      = dijet_pt[jetAssignmentDict["ak4Pair1"]]
               /\ jetAssignmentDict["ak4DijetMass0"]
                      = dijet_M[jetAssignmentDict["ak4Pair1"]]
               /\ jetAssignmentDict["ak4DijetPt1"]
                      = dijet_pt[jetAssignmentDict["ak4Pair0"]]
               /\ jetAssignmentDict["ak4DijetMass1"]
                      = dijet_M[jetAssignmentDict["ak4Pair0"]]

\* The second pair of the table has the higher dijet pT and another mass
\* than the first: slot 0 shows the pT and mass of ak4Pair1.
C28_Witness ==
    /\ pc = "dhh"
    /\ SecondPairHigher
    /\ dijet_M[jetAssignmentDict["ak4Pair1"]]
           # dijet_M[jetAssignmentDict["ak4Pair0"]]
    /\ jetAssignmentDict["ak4DijetMass0"]
           = dijet_M[jetAssignmentDict["ak4Pair1"]]
    /\ jetAssignmentDict["ak4Pair0"][1] = 0

(***************************************************************************)
(* C29. Every physics-object selection (good_muons, good_electrons,       *)
(* good_ak4jets, good_ak8jets) is side-effect free: after the call the     *)
(* input collection has the same objects and the same fields with the     *)
(* same values as before it.                                               *)
(***************************************************************************)
C29_SelectionsLeaveInputs ==
    [][/\ muons' = muons
       /\ electrons' = electrons
       /\ jets' = jets
       /\ fatjets' = fatjets]_vars

(***************************************************************************)
(* C30.  After main's load stage the shared samples_run3 catalog of every  *)
(* year that was loaded for training contains only keys in                 *)
(* sig_keys + bg_keys and is never restored, while the catalogs of the     *)
(* years not loaded for training keep all their keys; so the multi-year    *)
(* validation load sees a restricted catalog for the training years and    *)
(* an unrestricted one for the other years.                                *)
(***************************************************************************)
\* The years whose tables the load stage has loaded.
TrainingYears == DOMAIN events_dict_years

\* The catalog of every training year holds training keys only.
TrainingCatalogsRestricted ==
    \A y \in TrainingYears :
        DOMAIN samples_run3[y] \subseteq Elems(TrainingKeys(sig_keys, bg_keys))

\* A step leaves the catalog of every year that is not a training year
\* after it as it was, and past the load stage it leaves every catalog.
CatalogsKept ==
    /\ \A y \in (DOMAIN samples_run3) \ TrainingYears' :
           /\ y \in DOMAIN samples_run3'
           /\ samples_run3'[y] = samples_run3[y]
    /\ LoadStageDone => samples_run3' = samples_run3

\* The validation load has one table per key of the catalog as it is then.
ValidationSeesCatalog ==
    (pc' = "plot_allyears" /\ raised' = "") =>
        /\ DOMAIN main_events_dict' = Elems(years_test)
        /\ \A y \in Elems(years_test) :
               DOMAIN main_events_dict'[y] = DOMAIN samples_run3'[y]

C30_CatalogRestrictedForGood ==
    /\ [](LoadStageDone => TrainingCatalogsRestricted)
    /\ [][CatalogsKept /\ ValidationSeesCatalog]_vars

\* A run trained on 2022EE alone reaches the validation load: the tables of
\* 2022 hold the data sample, the tables of 2022EE training keys only.
C30_Witness ==
    /\ pc = "plot_allyears" /\ raised = ""
    /\ TrainingYears = {"2022EE"}
    /\ "data" \in DOMAIN main_events_dict["2022"]
    /\ "data" \notin DOMAIN main_events_dict["2022EE"]
    /\ DOMAIN main_events_dict["2022EE"]
           = Elems(TrainingKeys(sig_keys, bg_keys))

====
